---- MODULE Spec2Model ----
(***************************************************************************)
(* Model of the OpenClaw dashboard data endpoint                           *)
(* (app/api/dashboard-data/route.ts): the four source adapters, the agent  *)
(* reconciler, the report parser and the snapshot assembler behind GET;    *)
(* and of what stands around it: the Basic-Auth middleware, the debug      *)
(* endpoint, the snapshot generator and the polling page.                  *)
(*                                                                         *)
(* Strings the code inspects character by character (session keys, agent   *)
(* ids, folder names, report fields) are sequences of one-character        *)
(* strings; strings the code only tests for emptiness or copies are TLA+   *)
(* strings, "" standing for an absent or empty value.                      *)
(***************************************************************************)
EXTENDS Integers, Sequences, FiniteSets, TLC

VARIABLES
    pc,             \* position of the request: "idle", "fetching", "responded"
    snapshot,       \* buildLiveData's deep copy of the placeholder
    response,       \* what GET answered
    placeholderData,\* the imported baseline module object
    generatedFile,  \* data/generated-data.json on disk
    agentsSrc,      \* what fetchAgentData observed of its sources
    agents,         \* outcome of fetchAgentData
    projectsSrc,    \* what fetchGitHubProjects observed
    projects,       \* outcome of fetchGitHubProjects
    cronsSrc,       \* what fetchCronStatus observed
    crons,          \* outcome of fetchCronStatus
    tradingSrc,     \* what fetchB2LData observed
    trading,        \* outcome of fetchB2LData
    completionOrder,\* history: the adapters in the order their promises settled
    other,          \* a second request in flight beside the first
    cli,            \* one run of the CLI: its output and what is extracted from it
    parse,          \* calls of the report parser on one text
    waits,          \* the external waits of the request and which never answer
    auth,           \* one request through the middleware
    debug,          \* one report of the debug endpoint
    gen,            \* one run of the snapshot generator
    page            \* the polling page and its refreshes in flight

vars == <<pc, snapshot, response, placeholderData, generatedFile,
          agentsSrc, agents, projectsSrc, projects, cronsSrc, crons,
          tradingSrc, trading, completionOrder, other, cli, parse, waits,
          auth, debug, gen, page>>

\* The endpoint's request, its history and the checks of single functions
core == <<pc, snapshot, response, placeholderData, generatedFile,
          agentsSrc, agents, projectsSrc, projects, cronsSrc, crons,
          tradingSrc, trading, completionOrder, other, cli, parse>>

\* The state beside them
later == <<waits, auth, debug, gen, page>>

-----------------------------------------------------------------------------
(* Bounds of the model *)

MaxAgents == 2
MaxSessions == 2
MaxRefreshes == 3

-----------------------------------------------------------------------------
(* JavaScript strings as character sequences *)

\* String.prototype.startsWith
StartsWith(s, prefix) ==
    /\ Len(prefix) <= Len(s)
    /\ SubSeq(s, 1, Len(prefix)) = prefix

\* The tail of s from 1-based position i (String.prototype.slice(i-1))
SliceFrom(s, i) ==
    IF i > Len(s) THEN <<>> ELSE SubSeq(s, i, Len(s))

\* UTF-16 code unit of the characters the model uses
CharCode(c) ==
    CASE c = " " -> 32 [] c = "-" -> 45 [] c = ":" -> 58 [] c = "|" -> 124
      [] c = "0" -> 48 [] c = "1" -> 49 [] c = "2" -> 50 [] c = "3" -> 51
      [] c = "4" -> 52 [] c = "5" -> 53 [] c = "6" -> 54 [] c = "7" -> 55
      [] c = "8" -> 56 [] c = "9" -> 57
      [] c = "A" -> 65 [] c = "B" -> 66 [] c = "C" -> 67 [] c = "Q" -> 81
      [] c = "a" -> 97 [] c = "b" -> 98 [] c = "c" -> 99 [] c = "d" -> 100
      [] c = "e" -> 101 [] c = "f" -> 102 [] c = "g" -> 103 [] c = "i" -> 105
      [] c = "l" -> 108 [] c = "m" -> 109 [] c = "n" -> 110 [] c = "o" -> 111
      [] c = "p" -> 112 [] c = "q" -> 113 [] c = "r" -> 114 [] c = "s" -> 115
      [] c = "t" -> 116 [] c = "u" -> 117 [] c = "w" -> 119 [] c = "x" -> 120
      [] c = "z" -> 122
      [] OTHER -> 0

\* String.prototype.toUpperCase on one character
ToUpperChar(c) ==
    CASE c = "a" -> "A" [] c = "b" -> "B" [] c = "c" -> "C" [] c = "d" -> "D"
      [] c = "e" -> "E" [] c = "f" -> "F" [] c = "g" -> "G" [] c = "i" -> "I"
      [] c = "m" -> "M" [] c = "n" -> "N" [] c = "o" -> "O" [] c = "q" -> "Q"
      [] c = "r" -> "R" [] c = "s" -> "S" [] c = "t" -> "T" [] c = "u" -> "U"
      [] c = "x" -> "X" [] c = "z" -> "Z"
      [] OTHER -> c

\* Comparison of two strings by code units, as Array.prototype.sort() does
RECURSIVE StrLess(_, _)
StrLess(a, b) ==
    IF a = <<>> THEN b # <<>>
    ELSE IF b = <<>> THEN FALSE
    ELSE IF CharCode(Head(a)) # CharCode(Head(b))
         THEN CharCode(Head(a)) < CharCode(Head(b))
    ELSE StrLess(Tail(a), Tail(b))

\* String.prototype.split(sep) for a one-character separator
RECURSIVE SplitOn(_, _)
SplitOn(s, sep) ==
    IF \A i \in 1..Len(s) : s[i] # sep THEN <<s>>
    ELSE LET i == CHOOSE k \in 1..Len(s) :
                      s[k] = sep /\ \A j \in 1..(k - 1) : s[j] # sep
         IN <<SubSeq(s, 1, i - 1)>> \o SplitOn(SliceFrom(s, i + 1), sep)

\* Array.prototype.join(sep)
RECURSIVE JoinWith(_, _)
JoinWith(parts, sep) ==
    IF parts = <<>> THEN <<>>
    ELSE IF Len(parts) = 1 THEN parts[1]
    ELSE parts[1] \o sep \o JoinWith(Tail(parts), sep)

\* Decimal rendering of a natural number, as a template literal does
RECURSIVE NatToStr(_)
NatToStr(n) ==
    LET digit(d) == CASE d = 0 -> "0" [] d = 1 -> "1" [] d = 2 -> "2"
                      [] d = 3 -> "3" [] d = 4 -> "4" [] d = 5 -> "5"
                      [] d = 6 -> "6" [] d = 7 -> "7" [] d = 8 -> "8"
                      [] OTHER -> "9"
    IN IF n < 10 THEN <<digit(n)>>
       ELSE NatToStr(n \div 10) \o <<digit(n % 10)>>

-----------------------------------------------------------------------------
(* Literals of route.ts *)

\* "agent:" of the primary prefix template
kAgentColon == <<"a", "g", "e", "n", "t", ":">>

\* "agent:main:subagent:" of the secondary key pattern
kSubagentPrefix ==
    <<"a", "g", "e", "n", "t", ":", "m", "a", "i", "n", ":",
      "s", "u", "b", "a", "g", "e", "n", "t", ":">>

kUnknown == <<"U", "n", "k", "n", "o", "w", "n">>

\* "Sub-agent " of the generic ordinal label
kSubAgentLabel == <<"S", "u", "b", "-", "a", "g", "e", "n", "t", " ">>

DefaultModel == "anthropic/claude-haiku-4-5"

-----------------------------------------------------------------------------
(* Agent reconciler: fetchAgentData and its helpers *)

\* extractAgents: a bare array is the list; of an object, its agents field
\* (whatever its type) or [] when the field is absent or null
extractAgents(payload) ==
    IF payload.t = "array" THEN [kind |-> "array", items |-> payload.items, len |-> 0]
    ELSE IF payload.field = "array"
         THEN [kind |-> "array", items |-> payload.items, len |-> 0]
    ELSE IF payload.field = "str"
         THEN [kind |-> "str", items |-> <<>>, len |-> payload.len]
    ELSE IF payload.field = "num"
         THEN [kind |-> "num", items |-> <<>>, len |-> 0]
    ELSE [kind |-> "array", items |-> <<>>, len |-> 0]

\* extractSessions: the sessions field of an object when it is an array, else []
extractSessions(payload) ==
    IF payload.t = "object" /\ payload.field = "array" THEN payload.items
    ELSE <<>>

\* The numeric token value of one session: totalTokens when a number, else
\* outputTokens ?? 0, coerced with Number(value) || 0
TokenValue(session) ==
    LET value == IF session.totalTokens.t = "num" THEN session.totalTokens
                 ELSE IF session.outputTokens.t = "absent"
                      THEN [t |-> "num", n |-> 0]
                 ELSE session.outputTokens
    IN IF value.t = "num" THEN value.n
       ELSE IF value.t = "str" THEN value.n
       ELSE 0

RECURSIVE SumTokens(_)
SumTokens(sessions) ==
    IF sessions = <<>> THEN 0
    ELSE TokenValue(Head(sessions)) + SumTokens(Tail(sessions))

\* A cost cut off after the fourth decimal instead of rounded to it
CostOfTruncated(tokens) == (tokens * 263) \div 1000

\* Number((tokens * 0.0000263).toFixed(4)), in units of 0.0001
CostOf(tokens) == (tokens * 263 + 500) \div 1000

\* The sessions a primary agent claims: key is a string starting with agent:<id>:
AgentSessions(agent, sessions) ==
    LET prefix == kAgentColon \o agent.id \o <<":">>
    IN SelectSeq(sessions, LAMBDA s : StartsWith(s.key, prefix))

\* A state that does not look at the session count
ActivityStateAlways(sessionCount) == "Active"

ActivityState(sessionCount) ==
    IF sessionCount > 0 THEN "Active" ELSE "Idle"

\* The record built for one primary agent
PrimaryRecord(agent, sessions) ==
    LET agentSessions == AgentSessions(agent, sessions)
        tokens == SumTokens(agentSessions)
    IN [name |-> IF agent.identityName # <<>> THEN agent.identityName
                 ELSE IF agent.id # <<>> THEN agent.id
                 ELSE kUnknown,
        state |-> ActivityState(Len(agentSessions)),
        sessions |-> Len(agentSessions),
        tokens |-> tokens,
        cost |-> CostOf(tokens),
        model |-> IF agent.model # "" THEN agent.model ELSE DefaultModel,
        tasks |-> <<>>]

IsHexDash(c) ==
    c \in {"a", "b", "c", "d", "e", "f", "-",
           "0", "1", "2", "3", "4", "5", "6", "7", "8", "9"}

\* The capture of /^agent:main:subagent:([a-f0-9-]+)/ on key; <<>> when no match
SubagentMatch(key) ==
    IF ~StartsWith(key, kSubagentPrefix) THEN <<>>
    ELSE LET rest == SliceFrom(key, Len(kSubagentPrefix) + 1)
             stop == IF \A i \in 1..Len(rest) : IsHexDash(rest[i])
                     THEN Len(rest) + 1
                     ELSE CHOOSE k \in 1..Len(rest) :
                              /\ ~IsHexDash(rest[k])
                              /\ \A j \in 1..(k - 1) : IsHexDash(rest[j])
         IN SubSeq(rest, 1, stop - 1)

\* The subagentSessions map after the loop over sessions, in insertion order
RECURSIVE GroupSubagents(_, _)
GroupSubagents(sessions, acc) ==
    IF sessions = <<>> THEN acc
    ELSE LET session == Head(sessions)
             subagentId == SubagentMatch(session.key)
         IN IF subagentId = <<>> THEN GroupSubagents(Tail(sessions), acc)
            ELSE IF \E i \in 1..Len(acc) : acc[i].id = subagentId
            THEN LET i == CHOOSE k \in 1..Len(acc) : acc[k].id = subagentId
                 IN GroupSubagents(Tail(sessions),
                        [acc EXCEPT ![i].sessions = @ + 1,
                                    ![i].tokens = @ + TokenValue(session)])
            ELSE GroupSubagents(Tail(sessions),
                     Append(acc, [id |-> subagentId,
                                  model |-> IF session.model # "" THEN session.model
                                            ELSE DefaultModel,
                                  sessions |-> 1,
                                  tokens |-> TokenValue(session)]))

\* folderName.split('-').map(capitalise first letter).join(' ')
TitleCase(folderName) ==
    LET words == SplitOn(folderName, "-")
        cap(word) == IF word = <<>> THEN <<>>
                     ELSE <<ToUpperChar(Head(word))>> \o Tail(word)
    IN JoinWith([k \in 1..Len(words) |-> cap(words[k])], <<" ">>)

\* A naming that gives every group its generic ordinal label
SubagentNameGeneric(agentIndex, definedSubAgents) ==
    kSubAgentLabel \o NatToStr(agentIndex + 1)

\* The name of the group at 0-based position agentIndex
SubagentName(agentIndex, definedSubAgents) ==
    IF agentIndex < Len(definedSubAgents)
    THEN TitleCase(definedSubAgents[agentIndex + 1])
    ELSE kSubAgentLabel \o NatToStr(agentIndex + 1)

\* The records pushed by the loop over the discovered groups
ActiveSubagents(groups, definedSubAgents) ==
    [k \in 1..Len(groups) |->
        [name |-> SubagentName(k - 1, definedSubAgents),
         state |-> "Active",
         sessions |-> groups[k].sessions,
         tokens |-> groups[k].tokens,
         cost |-> CostOf(groups[k].tokens),
         model |-> groups[k].model,
         tasks |-> <<>>]]

\* An idle loop that starts at the first folder whatever was discovered
IdleSubagentsAll(agentIndex, definedSubAgents) ==
    [i \in 1..Len(definedSubAgents) |->
        [name |-> TitleCase(definedSubAgents[i]),
         state |-> "Idle",
         sessions |-> 0,
         tokens |-> 0,
         cost |-> 0,
         model |-> DefaultModel,
         tasks |-> <<>>]]

\* The records pushed for the defined folders from position agentIndex on
IdleSubagents(agentIndex, definedSubAgents) ==
    [i \in 1..(Len(definedSubAgents) - agentIndex) |->
        [name |-> TitleCase(definedSubAgents[agentIndex + i]),
         state |-> "Idle",
         sessions |-> 0,
         tokens |-> 0,
         cost |-> 0,
         model |-> DefaultModel,
         tasks |-> <<>>]]

\* Array.prototype.sort() of a set of distinct names
RECURSIVE SortStrings(_)
SortStrings(names) ==
    IF names = {} THEN <<>>
    ELSE LET first == CHOOSE x \in names :
                          \A y \in names \ {x} : StrLess(x, y)
         IN <<first>> \o SortStrings(names \ {first})

\* getDefinedSubAgentsList: the sorted directory names of ~/clawd/agents,
\* [] when the listing fails
getDefinedSubAgentsList(dir) ==
    IF ~dir.ok THEN <<>>
    ELSE SortStrings({e.name : e \in {x \in dir.entries : x.isDirectory}})

\* fetchAgentData on what the two CLI calls and the directory listing gave:
\* [t |-> "null"], [t |-> "raise"] or [t |-> "val", v |-> records]
fetchAgentData(src) ==
    LET agentsArray == extractAgents(src.agentsJson)
        sessions == extractSessions(src.sessionsJson)
        definedSubAgents == getDefinedSubAgentsList(src.dir)
        groups == GroupSubagents(sessions, <<>>)
    IN IF src.agentsJson.t = "null" THEN [t |-> "null", v |-> <<>>]
       ELSE IF agentsArray.kind = "num" THEN [t |-> "null", v |-> <<>>]
       ELSE IF agentsArray.kind = "str"
            THEN IF agentsArray.len = 0 THEN [t |-> "null", v |-> <<>>]
                 ELSE [t |-> "raise", v |-> <<>>]
       ELSE IF agentsArray.items = <<>> THEN [t |-> "null", v |-> <<>>]
       ELSE IF \/ \E i \in 1..Len(agentsArray.items) : agentsArray.items[i].null
               \/ \E i \in 1..Len(sessions) : sessions[i].null
            THEN [t |-> "raise", v |-> <<>>]
       ELSE [t |-> "val",
             v |-> [k \in 1..Len(agentsArray.items) |->
                       PrimaryRecord(agentsArray.items[k], sessions)]
                   \o ActiveSubagents(groups, definedSubAgents)
                   \o IdleSubagents(Len(groups), definedSubAgents)]

-----------------------------------------------------------------------------
(* Cron adapter: fetchCronStatus, extractJobs, formatTimestamp *)

\* A number of milliseconds since the epoch is held as whole days and the
\* milliseconds within the day, so that 8.64e15 stays within machine integers.
MaxDateDays == 100000000

\* Whether new Date(value) is a valid date: |value| <= 8.64e15 ms
DateInRange(days, ms) ==
    \/ (-MaxDateDays <= days /\ days < MaxDateDays)
    \/ (days = MaxDateDays /\ ms = 0)

\* Date.prototype.toISOString: the proleptic Gregorian UTC fields of the instant
ToISOFields(days, ms) ==
    LET z == days + 719468
        era == z \div 146097
        doe == z - era * 146097
        yoe == (doe - doe \div 1460 + doe \div 36524 - doe \div 146096) \div 365
        doy == doe - (365 * yoe + yoe \div 4 - yoe \div 100)
        mp == (5 * doy + 2) \div 153
        d == doy - (153 * mp + 2) \div 5 + 1
        m == IF mp < 10 THEN mp + 3 ELSE mp - 9
        y == yoe + era * 400 + (IF m <= 2 THEN 1 ELSE 0)
    IN [year |-> y, month |-> m, day |-> d,
        hour |-> ms \div 3600000,
        minute |-> (ms \div 60000) % 60,
        second |-> (ms \div 1000) % 60,
        milli |-> ms % 1000]

NoDate ==
    [year |-> 0, month |-> 0, day |-> 0, hour |-> 0, minute |-> 0,
     second |-> 0, milli |-> 0]

\* value.trim() is empty
IsBlank(text) == text \in {"", " ", "  "}

\* formatTimestamp: a number gives its ISO rendering (RangeError outside the
\* date range), a non-blank string itself, anything else "Unknown"
formatTimestamp(value) ==
    IF value.t = "num"
    THEN IF DateInRange(value.days, value.ms)
         THEN [t |-> "iso", text |-> "", date |-> ToISOFields(value.days, value.ms)]
         ELSE [t |-> "raise", text |-> "", date |-> NoDate]
    ELSE IF value.t = "str" /\ ~IsBlank(value.text)
         THEN [t |-> "text", text |-> value.text, date |-> NoDate]
    ELSE [t |-> "text", text |-> "Unknown", date |-> NoDate]

\* a ?? b on timestamp fields
Coalesce(a, b) == IF a.t = "absent" THEN b ELSE a

\* a || b on strings
OrElse(a, b) == IF a # "" THEN a ELSE b

\* extractJobs: the jobs field of an object when it is an array, else []
extractJobs(payload) ==
    IF payload.t = "object" /\ payload.field = "array" THEN payload.items
    ELSE <<>>

\* The record the map callback builds for one job
CronRecord(job) ==
    [name |-> OrElse(job.name,
                  OrElse(job.payloadName,
                      OrElse(job.payloadText, OrElse(job.id, "Unnamed cron")))),
     status |-> OrElse(job.state.lastStatus, OrElse(job.state.status, "unknown")),
     nextRun |-> formatTimestamp(Coalesce(job.state.nextRunAtMs, job.state.next_run)),
     lastRun |-> formatTimestamp(
                     Coalesce(job.state.lastRunAtMs,
                         Coalesce(job.state.last_run, job.state.lastRun)))]

\* fetchCronStatus on what the cron CLI call gave
fetchCronStatus(cronJson) ==
    LET jobs == extractJobs(cronJson)
        mapped == [k \in 1..Len(jobs) |-> CronRecord(jobs[k])]
    IN IF cronJson.t = "null" THEN [t |-> "null", status |-> "", jobs |-> <<>>]
       ELSE IF jobs = <<>> THEN [t |-> "null", status |-> "", jobs |-> <<>>]
       ELSE IF \E k \in 1..Len(jobs) : jobs[k].null
            THEN [t |-> "raise", status |-> "", jobs |-> <<>>]
       ELSE IF \E k \in 1..Len(jobs) :
                   mapped[k].nextRun.t = "raise" \/ mapped[k].lastRun.t = "raise"
            THEN [t |-> "raise", status |-> "", jobs |-> <<>>]
       ELSE [t |-> "val", status |-> "available", jobs |-> mapped]

-----------------------------------------------------------------------------
(* Issue-tracker adapter: fetchGitHubProjects *)

\* String.prototype.toLowerCase on the status names the board uses
ToLowerStatus(name) ==
    CASE name = "In Progress" -> "in progress"
      [] name = "IN_PROGRESS" -> "in_progress"
      [] name = "Done" -> "done"
      [] name = "Todo" -> "todo"
      [] OTHER -> name

\* The filter on the Status field value
IsInProgress(item) ==
    LET statusValue == ToLowerStatus(item.status)
    IN statusValue = "in progress" \/ statusValue = "in_progress"

UnavailableProjects ==
    [t |-> "val", status |-> "unavailable", active |-> <<>>,
     recentActivity |-> <<>>, activityLog |-> <<>>]

\* fetchGitHubProjects on the outcome of the token lookup and the GraphQL call;
\* the label `${repo} #${number}: ${title}` is held as its three parts
fetchGitHubProjects(src) ==
    LET inProgressItems == SelectSeq(src.nodes, IsInProgress)
        label(item) == <<OrElse(item.repo, "unknown"), OrElse(item.number, "?"),
                         OrElse(item.title, "Untitled")>>
    IN IF src.kind # "ok" THEN UnavailableProjects
       ELSE IF inProgressItems = <<>>
            THEN [t |-> "val", status |-> "available", active |-> <<>>,
                  recentActivity |-> <<>>, activityLog |-> <<>>]
       ELSE [t |-> "val", status |-> "available",
             active |-> [k \in 1..Len(inProgressItems) |->
                            [name |-> label(inProgressItems[k]),
                             status |-> "In Progress", owner |-> "GitHub"]],
             recentActivity |-> [k \in 1..Len(inProgressItems) |->
                            [type |-> "github",
                             label |-> label(inProgressItems[k]),
                             detail |-> "In Progress",
                             timestamp |-> OrElse(inProgressItems[k].updatedAt, "now"),
                             source |-> "Clawd Tasks Board"]],
             activityLog |-> [k \in 1..Len(inProgressItems) |->
                            label(inProgressItems[k])]]

-----------------------------------------------------------------------------
(* Report adapter: fetchB2LData and the record-window parser parseB2LHorses *)

\* A report line is held as what the two line patterns see of it: a date
\* heading (^##\s+(\d{4}-\d{2}-\d{2})) with its date, an entry line with the
\* bold field, the italic field and what the trailing text holds, or a line
\* that matches neither.

\* todayDate, "2026-02-10"
todayDate == <<"2", "0", "2", "6", "-", "0", "2", "-", "1", "0">>

\* The default time token "00:00"
kMidnight == <<"0", "0", ":", "0", "0">>

\* The slice(0, 2) that ends parseB2LHorses
MaxHorses == 2

\* The slice(0, 6) of fetchB2LData
MaxQualified == 6

IsDigit(c) == c \in {"0", "1", "2", "3", "4", "5", "6", "7", "8", "9"}

\* \s of the patterns and of trim(): a space or a line break
IsSpace(c) == c \in {" ", "\n"}

\* String.prototype.trim
RECURSIVE Trim(_)
Trim(s) ==
    IF s = <<>> THEN s
    ELSE IF IsSpace(Head(s)) THEN Trim(Tail(s))
    ELSE IF IsSpace(s[Len(s)]) THEN Trim(SubSeq(s, 1, Len(s) - 1))
    ELSE s

\* s starts with \d{4}-\d{2}-\d{2}
HasDateAtStart(s) ==
    /\ Len(s) >= 10
    /\ \A i \in {1, 2, 3, 4, 6, 7, 9, 10} : IsDigit(s[i])
    /\ s[5] = "-"
    /\ s[8] = "-"

\* The number of whitespace characters s begins with
RECURSIVE LeadingSpaces(_)
LeadingSpaces(s) ==
    IF s = <<>> \/ ~IsSpace(Head(s)) THEN 0
    ELSE 1 + LeadingSpaces(Tail(s))

\* A match that never finds a date in the field
RaceDateMatchNever(race) == [matched |-> FALSE, date |-> <<>>, race |-> <<>>]

\* race.match(/^(\d{4}-\d{2}-\d{2})\s+(.+)$/): the two groups, or no match
RaceDateMatch(race) ==
    LET after == SliceFrom(race, 11)
        w == LeadingSpaces(after)
    IN IF ~HasDateAtStart(race) \/ w = 0 THEN [matched |-> FALSE, date |-> <<>>, race |-> <<>>]
       ELSE IF Len(after) > w
            THEN [matched |-> TRUE, date |-> SubSeq(race, 1, 10),
                  race |-> SliceFrom(after, w + 1)]
       ELSE IF w >= 2
            THEN [matched |-> TRUE, date |-> SubSeq(race, 1, 10), race |-> <<" ">>]
       ELSE [matched |-> FALSE, date |-> <<>>, race |-> <<>>]

\* a.race.match(/(\d{2}):(\d{2})/)?.[0] || "00:00"
TimeToken(race) ==
    LET at(i) == /\ IsDigit(race[i]) /\ IsDigit(race[i + 1]) /\ race[i + 2] = ":"
                 /\ IsDigit(race[i + 3]) /\ IsDigit(race[i + 4])
        hits == {i \in 1..(Len(race) - 4) : at(i)}
    IN IF hits = {} THEN kMidnight
       ELSE LET i == CHOOSE k \in hits : \A j \in hits : k <= j
            IN SubSeq(race, i, i + 4)

\* A dedup key that keeps the fields as they stand on the line
SeenKeyUntrimmed(name, race, entryDate) ==
    name \o <<"|">> \o race \o <<"|">> \o entryDate

\* `${name.trim()}|${race.trim()}|${entryDate}`
SeenKey(name, race, entryDate) ==
    Trim(name) \o <<"|">> \o Trim(race) \o <<"|">> \o entryDate

\* A window that lets every dated entry through
InWindowAnyDate(entryDate) == entryDate # <<>>

\* The date filter: entryDate !== todayDate drops the entry
InWindow(entryDate) == entryDate = todayDate

\* One pass of the loop body over a line; st holds currentDate, horses, seen
ParseLine(st, line) ==
    IF line.t = "heading" THEN [st EXCEPT !.currentDate = line.date]
    ELSE IF line.t # "entry" THEN st
    ELSE LET m == RaceDateMatch(line.race)
             entryDate == IF m.matched THEN m.date ELSE st.currentDate
             race == IF m.matched THEN m.race ELSE line.race
             key == SeenKey(line.name, race, entryDate)
         IN IF ~InWindow(entryDate) THEN st
            ELSE IF key \in st.seen THEN st
            ELSE IF Trim(line.name) = <<>> THEN [st EXCEPT !.seen = @ \cup {key}]
            ELSE [st EXCEPT
                    !.seen = @ \cup {key},
                    !.horses = Append(@,
                        [name |-> Trim(line.name),
                         race |-> Trim(entryDate \o <<" ">> \o Trim(race)),
                         value |-> IF line.price # "" THEN line.price ELSE "n/a",
                         note |-> line.note,
                         date |-> entryDate])]

RECURSIVE ParseLines(_, _)
ParseLines(st, lines) ==
    IF lines = <<>> THEN st
    ELSE ParseLines(ParseLine(st, Head(lines)), Tail(lines))

\* A comparator that puts the earliest time first
KeepsBeforeAscending(a, b) == ~StrLess(TimeToken(b.race), TimeToken(a.race))

\* Whether horse a stays in front of horse b under the comparator
\* timeB.localeCompare(timeA): a's time token is not below b's
KeepsBefore(a, b) == ~StrLess(TimeToken(a.race), TimeToken(b.race))

\* Array.prototype.sort with that comparator (stable): insertion of h into sorted
RECURSIVE InsertHorse(_, _)
InsertHorse(sorted, h) ==
    IF sorted = <<>> THEN <<h>>
    ELSE IF KeepsBefore(Head(sorted), h) THEN <<Head(sorted)>> \o InsertHorse(Tail(sorted), h)
    ELSE <<h>> \o sorted

RECURSIVE SortHorses(_)
SortHorses(horses) ==
    IF horses = <<>> THEN <<>>
    ELSE InsertHorse(SortHorses(SubSeq(horses, 1, Len(horses) - 1)),
                     horses[Len(horses)])

\* A slice that lets one element more through
TakeOneMore(seq, n) == IF Len(seq) <= n + 1 THEN seq ELSE SubSeq(seq, 1, n + 1)

\* Array.prototype.slice(0, n)
Take(seq, n) == IF Len(seq) <= n THEN seq ELSE SubSeq(seq, 1, n)

\* A set of seen keys that outlives the call
NewSeenKept(kept) == kept

\* const seen = new Set<string>(): every call starts from an empty set,
\* whatever keys an earlier call came across
NewSeen(kept) == {}

\* One call of parseB2LHorses on the lines of content, kept being the keys
\* earlier calls came across: the horses returned and the keys seen
ParseCall(lines, kept) ==
    LET st == ParseLines([currentDate |-> <<>>, horses |-> <<>>,
                          seen |-> NewSeen(kept)], lines)
    IN [horses |-> Take(SortHorses(st.horses), MaxHorses), seen |-> st.seen]

\* parseB2LHorses(content)
parseB2LHorses(lines) == ParseCall(lines, {}).horses

\* fetchB2LData on the state of the report file: null when it is missing or
\* unreadable, else the trading section built from the parsed horses
fetchB2LData(file) ==
    IF ~file.exists \/ ~file.readable
    THEN [t |-> "null", availability |-> "", dailyStatus |-> "",
          qualifiedHorses |-> <<>>, matchedRaces |-> 0, unmatched |-> 0,
          sheetCompleted |-> FALSE]
    ELSE LET horses == Take(parseB2LHorses(file.lines), MaxQualified)
             qualified == [k \in 1..Len(horses) |->
                              [name |-> horses[k].name, race |-> horses[k].race,
                               value |-> horses[k].value, note |-> horses[k].note]]
             n == Len(qualified)
         IN [t |-> "val",
             availability |-> IF n > 0 THEN "available" ELSE "unavailable",
             dailyStatus |-> IF n > 4 THEN "Green" ELSE IF n > 0 THEN "Amber" ELSE "Red",
             qualifiedHorses |-> qualified,
             matchedRaces |-> n,
             unmatched |-> IF 10 - n > 0 THEN 10 - n ELSE 0,
             sheetCompleted |-> n > 0]

-----------------------------------------------------------------------------
(* The sources one request can observe *)

\* All sequences over S of length at most n
SeqsUpTo(S, n) == UNION {[1..k -> S] : k \in 0..n}

Num(n) == [t |-> "num", n |-> n]
NumericString(n) == [t |-> "str", n |-> n]
OtherString == [t |-> "bad", n |-> 0]
NoTokens == [t |-> "absent", n |-> 0]

Agent(id, identityName) ==
    [null |-> FALSE, id |-> id, identityName |-> identityName, model |-> ""]

NullAgent == [null |-> TRUE, id |-> <<>>, identityName |-> <<>>, model |-> ""]

Session(key, totalTokens, outputTokens) ==
    [null |-> FALSE, key |-> key, totalTokens |-> totalTokens,
     outputTokens |-> outputTokens, model |-> ""]

NullSession ==
    [null |-> TRUE, key |-> <<>>, totalTokens |-> NoTokens,
     outputTokens |-> NoTokens, model |-> ""]

idMain == <<"m", "a", "i", "n">>

\* Elements of an agents list: a named agent, an agent whose id extends
\* another's by a colon, the agent "main", an agent without id, a null element
AgentChoices ==
    {Agent(<<"a">>, <<"C", "l", "a", "w", "d">>),
     Agent(<<"a", ":", "b">>, <<>>),
     Agent(idMain, <<>>),
     Agent(<<>>, <<>>),
     NullAgent}

\* Elements of a sessions list: keys owned by each of the agents above, keys of
\* the secondary pattern, a key of neither, a missing key, a null element; the
\* token fields as numbers, numeric strings, other strings or absent
SessionChoices ==
    {Session(kAgentColon \o <<"a", ":", "s">>, Num(1), NoTokens),
     Session(kAgentColon \o <<"a", ":", "b", ":", "s">>, Num(2), NoTokens),
     Session(kAgentColon \o idMain \o <<":", "s">>, NoTokens, OtherString),
     Session(kAgentColon \o <<":", "s">>, NumericString(9), Num(3)),
     Session(kSubagentPrefix \o <<"a", "b">>, Num(4), NoTokens),
     Session(kSubagentPrefix \o <<"a", "b", ":", "x">>, NoTokens, NumericString(5)),
     Session(kSubagentPrefix \o <<"c", "d", "z">>, NoTokens, Num(6)),
     Session(<<>>, Num(7), NoTokens),
     NullSession}

NullPayload == [t |-> "null", field |-> "absent", items |-> <<>>, len |-> 0]

ArrayPayload(items) == [t |-> "array", field |-> "absent", items |-> items, len |-> 0]

ObjectPayload(items) == [t |-> "object", field |-> "array", items |-> items, len |-> 0]

\* An object whose list field is absent, a number, or a string of length len
OddPayload(field, len) == [t |-> "object", field |-> field, items |-> <<>>, len |-> len]

AgentsPayloads ==
    {NullPayload, OddPayload("absent", 0), OddPayload("num", 0),
     OddPayload("str", 0), OddPayload("str", 1)}
    \cup {ObjectPayload(l) : l \in SeqsUpTo(AgentChoices, MaxAgents)}
    \cup {ArrayPayload(l) : l \in SeqsUpTo(AgentChoices, 1)}

SessionsPayloads ==
    {NullPayload, OddPayload("absent", 0), ArrayPayload(<<>>)}
    \cup {ObjectPayload(l) : l \in SeqsUpTo(SessionChoices, MaxSessions)}

folderCoder == <<"c", "o", "d", "e", "r">>
folderQaBot == <<"q", "a", "-", "b", "o", "t">>
fileNotes == <<"n", "o", "t", "e", "s">>

\* ~/clawd/agents: unreadable, empty, one folder beside a plain file, two folders
DirStates ==
    {[ok |-> FALSE, entries |-> {}],
     [ok |-> TRUE, entries |-> {}],
     [ok |-> TRUE, entries |-> {[name |-> folderCoder, isDirectory |-> TRUE],
                                [name |-> fileNotes, isDirectory |-> FALSE]}],
     [ok |-> TRUE, entries |-> {[name |-> folderQaBot, isDirectory |-> TRUE],
                                [name |-> folderCoder, isDirectory |-> TRUE]}]}

\* What fetchAgentData can observe when the reconciler is exercised alone
AgentsSrcSet ==
    [agentsJson : AgentsPayloads, sessionsJson : SessionsPayloads, dir : DirStates]


\* What fetchAgentData can observe within a request of the endpoint
RequestAgentsSrc ==
    [agentsJson : {NullPayload, OddPayload("num", 0), OddPayload("str", 1),
                   ObjectPayload(<<>>),
                   ObjectPayload(<<Agent(<<"a">>, <<"C", "l", "a", "w", "d">>)>>),
                   ObjectPayload(<<Agent(idMain, <<>>)>>),
                   ObjectPayload(<<NullAgent>>)},
     sessionsJson : {NullPayload,
                     ObjectPayload(<<Session(kAgentColon \o <<"a", ":", "s">>,
                                             Num(1), NoTokens)>>),
                     ObjectPayload(<<Session(kSubagentPrefix \o <<"a", "b">>,
                                             Num(4), NoTokens)>>),
                     ObjectPayload(<<NullSession>>)},
     dir : {[ok |-> FALSE, entries |-> {}],
            [ok |-> TRUE, entries |-> {[name |-> folderCoder, isDirectory |-> TRUE]}]}]

NoTimestamp == [t |-> "absent", days |-> 0, ms |-> 0, text |-> ""]
EpochMillis(days, ms) == [t |-> "num", days |-> days, ms |-> ms, text |-> ""]
TimeString(text) == [t |-> "str", days |-> 0, ms |-> 0, text |-> text]

NoCronState ==
    [lastStatus |-> "", status |-> "", nextRunAtMs |-> NoTimestamp,
     next_run |-> NoTimestamp, lastRunAtMs |-> NoTimestamp,
     last_run |-> NoTimestamp, lastRun |-> NoTimestamp]

Job(name, state) ==
    [null |-> FALSE, name |-> name, payloadName |-> "", payloadText |-> "",
     id |-> "job-1", state |-> state]

NullJob ==
    [null |-> TRUE, name |-> "", payloadName |-> "", payloadText |-> "",
     id |-> "", state |-> NoCronState]

\* {"name":"backup","state":{"status":"ok","nextRunAtMs":1700000000000}}
jobBackup ==
    Job("backup", [NoCronState EXCEPT !.status = "ok",
                                      !.nextRunAtMs = EpochMillis(19675, 80000000)])

\* A job in the legacy field names, its times given as strings
jobLegacy ==
    Job("", [NoCronState EXCEPT !.lastStatus = "error", !.status = "ok",
                                !.next_run = TimeString("tomorrow"),
                                !.last_run = TimeString(" ")])

\* A job whose nextRunAtMs (1e16) lies outside the range of Date
jobFarFuture ==
    Job("far", [NoCronState EXCEPT !.nextRunAtMs = EpochMillis(115740740, 64000000)])

\* What fetchCronStatus can observe within a request
RequestCronsSrc ==
    {NullPayload, OddPayload("absent", 0), ObjectPayload(<<>>),
     ObjectPayload(<<jobBackup>>), ObjectPayload(<<jobBackup, jobLegacy>>),
     ObjectPayload(<<NullJob>>), ObjectPayload(<<jobBackup, jobFarFuture>>)}

Node(status, title) ==
    [status |-> status, title |-> title, number |-> "7", repo |-> "dashboard",
     updatedAt |-> ""]

\* What fetchGitHubProjects can observe: no token, a transport error or
\* timeout, a non-2xx answer, GraphQL errors, no project, or the board's items
RequestProjectsSrc ==
    {[kind |-> k, nodes |-> <<>>] :
        k \in {"notoken", "neterr", "httperr", "gqlerr", "noproject"}}
    \cup {[kind |-> "ok", nodes |-> <<Node("Done", "old")>>],
          [kind |-> "ok", nodes |-> <<Node("IN_PROGRESS", "fix"), Node("", ""),
                                      Node("In Progress", "ship")>>]}

Heading(date) ==
    [t |-> "heading", date |-> date, race |-> <<>>, name |-> <<>>,
     price |-> "", note |-> ""]

Entry(race, name, price, note) ==
    [t |-> "entry", date |-> <<>>, race |-> race, name |-> name,
     price |-> price, note |-> note]

OtherLine ==
    [t |-> "other", date |-> <<>>, race |-> <<>>, name |-> <<>>,
     price |-> "", note |-> ""]

otherDate == <<"2", "0", "2", "6", "-", "0", "2", "-", "0", "9">>

ReportFile(lines) == [exists |-> TRUE, readable |-> TRUE, lines |-> lines]

\* What fetchB2LData can observe: the file missing, unreadable, empty, holding
\* only entries of another day, or holding one or three entries of the day
RequestTradingSrc ==
    {[exists |-> FALSE, readable |-> FALSE, lines |-> <<>>],
     [exists |-> TRUE, readable |-> FALSE, lines |-> <<>>],
     ReportFile(<<>>),
     ReportFile(<<Heading(otherDate),
                  Entry(<<"1", "4", ":", "3", "0", " ", "A">>, <<"x">>, "3.5", "n1")>>),
     ReportFile(<<OtherLine, Heading(todayDate),
                  Entry(<<"1", "4", ":", "3", "0", " ", "A">>, <<" ", "x">>, "3.5", "n1")>>),
     ReportFile(<<Heading(todayDate),
                  Entry(<<"1", "3", ":", "0", "0", " ", "A">>, <<"x">>, "", "n1"),
                  Entry(<<"1", "5", ":", "1", "0", " ", "B">>, <<"z">>, "n/a", "n2"),
                  Entry(otherDate \o <<" ", "1", "6", ":", "0", "0">>, <<"q">>, "2", "n3"),
                  Entry(<<"A">>, <<"q">>, "2", "n4")>>)}

-----------------------------------------------------------------------------
(* The baseline and the generated snapshot file *)

Sections ==
    {"agents", "projects", "trading", "crons", "calendar", "content", "fileActivity"}

\* The sections the four adapters feed
LiveSections == {"agents", "projects", "trading", "crons"}

\* data/dashboard-data.json, the imported placeholder: every section present.
\* A section is held with its provenance and, for the adapter-fed sections of
\* an assembled snapshot, the adapter's result.
Placeholder ==
    [s \in Sections |-> [origin |-> "placeholder", section |-> s]]

\* JSON.parse(JSON.stringify(placeholderData)): an equal value, a new object
DeepCopy(data) == data

\* A snapshot that is the imported object itself (snapshot = placeholderData)
AssignedAliases(data) == TRUE

\* Whether the snapshot buildLiveData works on is the very object data: the
\* result of JSON.parse is a new object that shares nothing with data
CopyAliases(data) == FALSE

Live(s, result) == [origin |-> "live", section |-> s, data |-> result]

\* data/generated-data.json as the generator leaves it: absent, or a snapshot
\* of the baseline's shape under a metadata envelope
GeneratedFiles ==
    {[present |-> FALSE, isFallback |-> FALSE],
     [present |-> TRUE, isFallback |-> FALSE]}

-----------------------------------------------------------------------------
(* The request: GET, buildLiveData and the four adapters it awaits together *)

PendingAgents == [t |-> "pending", v |-> <<>>]

PendingProjects ==
    [t |-> "pending", status |-> "", active |-> <<>>, recentActivity |-> <<>>,
     activityLog |-> <<>>]

PendingCrons == [t |-> "pending", status |-> "", jobs |-> <<>>]

PendingTrading ==
    [t |-> "pending", availability |-> "", dailyStatus |-> "",
     qualifiedHorses |-> <<>>, matchedRaces |-> 0, unmatched |-> 0,
     sheetCompleted |-> FALSE]

NoResponse == [status |-> 0, body |-> Placeholder]

NoAgentsSrc ==
    [agentsJson |-> NullPayload, sessionsJson |-> NullPayload,
     dir |-> [ok |-> FALSE, entries |-> {}]]

NoProjectsSrc == [kind |-> "notoken", nodes |-> <<>>]

NoTradingSrc == [exists |-> FALSE, readable |-> FALSE, lines |-> <<>>]

\* No second request has been received
OtherIdle ==
    [pc |-> "idle", snapshot |-> Placeholder, response |-> NoResponse,
     agents |-> PendingAgents, projects |-> PendingProjects,
     crons |-> PendingCrons, trading |-> PendingTrading]

\* What a CLI call returns when it has no JSON to give
NullJson == [t |-> "null", val |-> <<>>]

\* The CLI has not been run
NoCli ==
    [ran |-> FALSE, ok |-> FALSE, diag |-> <<>>, json |-> <<>>, trail |-> <<>>,
     route |-> NullJson, generator |-> NullJson]

\* The parser has not been called
NoParse ==
    [calls |-> 0, content |-> <<>>, horses |-> <<>>, previous |-> <<>>,
     seen |-> {}]

\* The adapters that wait on something outside the process
Adapters == {"agents", "projects", "crons", "trading"}

\* The external waits of one request: the three CLI processes, the HTTPS
\* query, the access check and the read of the report file, and the listing of
\* the agents directory
ExternalWaits ==
    {"agentsCli", "sessionsCli", "cronCli", "https", "reportAccess",
     "reportRead", "agentsDir"}

\* No request is waiting on anything
NoWaits ==
    [stalled |-> {}, awaiting |-> [a \in Adapters |-> "none"],
     outcome |-> [w \in ExternalWaits |-> "none"]]

\* No request has gone through the middleware
NoAuth == [handled |-> FALSE]

\* The debug endpoint has not been asked
NoDebug == [asked |-> FALSE, files |-> <<>>, fileStatus |-> <<>>, newestFile |-> 0]

\* The generator has not run
NoGen == [ran |-> FALSE, outcome |-> "none"]

\* How a request of the page stands: not started, pending, rejected without a
\* response, or answered by a response with an ok status or not and a JSON
\* body or not
NotStarted == [t |-> "none", ok |-> FALSE, json |-> FALSE]
PendingFetch == [t |-> "pending", ok |-> FALSE, json |-> FALSE]
RejectedFetch == [t |-> "rejected", ok |-> FALSE, json |-> FALSE]
Answered(r) == [t |-> "response", ok |-> r.ok, json |-> r.json]

\* The page before it is mounted: useState(placeholderData), useState(true),
\* useState(null), useState(null), and no request made
NoPage ==
    [mounted |-> FALSE, data |-> 0, loading |-> TRUE, error |-> "",
     lastUpdated |-> 0, started |-> 0,
     outcome |-> [k \in 1..MaxRefreshes |-> NotStarted]]

\* The endpoint before any request
InitEndpoint ==
    /\ pc = "idle"
    /\ placeholderData = Placeholder
    /\ snapshot = Placeholder
    /\ response = NoResponse
    /\ generatedFile \in GeneratedFiles
    /\ agentsSrc = NoAgentsSrc
    /\ agents = PendingAgents
    /\ projectsSrc = NoProjectsSrc
    /\ projects = PendingProjects
    /\ cronsSrc = NullPayload
    /\ crons = PendingCrons
    /\ tradingSrc = NoTradingSrc
    /\ trading = PendingTrading
    /\ completionOrder = <<>>
    /\ other = OtherIdle
    /\ cli = NoCli
    /\ waits = NoWaits
    /\ auth = NoAuth
    /\ debug = NoDebug
    /\ gen = NoGen
    /\ page = NoPage

Init ==
    /\ InitEndpoint
    /\ parse = NoParse

\* GET is entered and buildLiveData copies the placeholder and starts the
\* four adapters
GetStart ==
    /\ pc \in {"idle", "responded"}
    /\ pc' = "fetching"
    /\ snapshot' = DeepCopy(placeholderData)
    /\ response' = NoResponse
    /\ agentsSrc' = NoAgentsSrc
    /\ agents' = PendingAgents
    /\ projectsSrc' = NoProjectsSrc
    /\ projects' = PendingProjects
    /\ cronsSrc' = NullPayload
    /\ crons' = PendingCrons
    /\ tradingSrc' = NoTradingSrc
    /\ trading' = PendingTrading
    /\ UNCHANGED <<placeholderData, generatedFile>>

\* The promise of fetchAgentData settles on one of the given source states
AgentsSettle(sources) ==
    /\ pc = "fetching"
    /\ agents.t = "pending"
    /\ \E src \in sources :
          /\ agentsSrc' = src
          /\ agents' = fetchAgentData(src)
    /\ UNCHANGED <<pc, snapshot, response, placeholderData, generatedFile,
                   projectsSrc, projects, cronsSrc, crons, tradingSrc, trading>>

\* The promise of fetchGitHubProjects settles on one of the given source states
ProjectsSettle(sources) ==
    /\ pc = "fetching"
    /\ projects.t = "pending"
    /\ \E src \in sources :
          /\ projectsSrc' = src
          /\ projects' = fetchGitHubProjects(src)
    /\ UNCHANGED <<pc, snapshot, response, placeholderData, generatedFile,
                   agentsSrc, agents, cronsSrc, crons, tradingSrc, trading>>

\* The promise of fetchCronStatus settles on one of the given source states
CronsSettle(sources) ==
    /\ pc = "fetching"
    /\ crons.t = "pending"
    /\ \E src \in sources :
          /\ cronsSrc' = src
          /\ crons' = fetchCronStatus(src)
    /\ UNCHANGED <<pc, snapshot, response, placeholderData, generatedFile,
                   agentsSrc, agents, projectsSrc, projects, tradingSrc, trading>>

\* The promise of fetchB2LData settles on one of the given source states
TradingSettle(sources) ==
    /\ pc = "fetching"
    /\ trading.t = "pending"
    /\ \E src \in sources :
          /\ tradingSrc' = src
          /\ trading' = fetchB2LData(src)
    /\ UNCHANGED <<pc, snapshot, response, placeholderData, generatedFile,
                   agentsSrc, agents, projectsSrc, projects, cronsSrc, crons>>

\* A cron condition that needs more than one job
CronsApplyMany(c) == c.t = "val" /\ Len(c.jobs) > 1

\* An agents condition that only asks that the adapter did not raise
AgentsApplyAny(a) == a.t # "raise"

\* The four replace-or-keep conditions of buildLiveData
AgentsApply(a) == a.t = "val" /\ Len(a.v) > 0
ProjectsApply(p) == p.t = "val" /\ Len(p.active) > 0
CronsApply(c) == c.t = "val" /\ Len(c.jobs) > 0
TradingApply(tr) == tr.t = "val"

\* The snapshot buildLiveData returns once all four promises are fulfilled
Assemble(snap, a, p, c, tr) ==
    [snap EXCEPT
        !["agents"] = IF AgentsApply(a) THEN Live("agents", a) ELSE @,
        !["projects"] = IF ProjectsApply(p) THEN Live("projects", p) ELSE @,
        !["crons"] = IF CronsApply(c) THEN Live("crons", c) ELSE @,
        !["trading"] = IF TradingApply(tr) THEN Live("trading", tr) ELSE @]

\* The status GET puts on its answers
StatusOk == 200

\* A guard that does not wait for the promises
SettledOrNot(r) == r.t \in {"val", "null", "pending"}

\* Whether a promise is fulfilled, with a result or with null
Settled(r) == r.t \in {"val", "null"}

\* Promise.all is fulfilled: buildLiveData merges and GET answers the snapshot
GetReturn ==
    /\ pc = "fetching"
    /\ Settled(agents) /\ Settled(projects) /\ Settled(crons) /\ Settled(trading)
    /\ snapshot' = Assemble(snapshot, agents, projects, crons, trading)
    /\ placeholderData' =
          IF CopyAliases(placeholderData) THEN snapshot' ELSE placeholderData
    /\ response' = [status |-> StatusOk, body |-> snapshot']
    /\ pc' = "responded"
    /\ UNCHANGED <<generatedFile, agentsSrc, agents, projectsSrc,
                   projects, cronsSrc, crons, tradingSrc, trading>>

\* A catch block that surfaces the failure as a server error
CatchResponseError(baseline) == [status |-> 500, body |-> baseline]

\* The answer of GET's catch block
CatchResponse(baseline) == [status |-> StatusOk, body |-> baseline]

\* Promise.all is rejected by the first adapter that raises: buildLiveData
\* rejects and GET's catch block answers the placeholder
GetCatch ==
    /\ pc = "fetching"
    /\ \/ agents.t = "raise"
       \/ projects.t = "raise"
       \/ crons.t = "raise"
       \/ trading.t = "raise"
    /\ response' = CatchResponse(placeholderData)
    /\ pc' = "responded"
    /\ UNCHANGED <<snapshot, placeholderData, generatedFile, agentsSrc, agents,
                   projectsSrc, projects, cronsSrc, crons, tradingSrc, trading>>

\* The variables the endpoint's single request leaves alone
aside == <<completionOrder, other, cli, parse, later>>

Next ==
    \/ GetStart /\ UNCHANGED aside
    \/ AgentsSettle(RequestAgentsSrc) /\ UNCHANGED aside
    \/ ProjectsSettle(RequestProjectsSrc) /\ UNCHANGED aside
    \/ CronsSettle(RequestCronsSrc) /\ UNCHANGED aside
    \/ TradingSettle(RequestTradingSrc) /\ UNCHANGED aside
    \/ GetReturn /\ UNCHANGED aside
    \/ GetCatch /\ UNCHANGED aside

Spec == Init /\ [][Next]_vars

\* The reconciler alone, over every agents payload, sessions payload and
\* directory state within the bounds
NextAgents ==
    \/ GetStart /\ UNCHANGED aside
    \/ AgentsSettle(AgentsSrcSet) /\ UNCHANGED aside

SpecAgents == Init /\ [][NextAgents]_vars

-----------------------------------------------------------------------------
(* Properties of the endpoint and the assembler *)

Responded == pc = "responded"

SomeAdapterRaised ==
    \/ agents.t = "raise"
    \/ projects.t = "raise"
    \/ crons.t = "raise"
    \/ trading.t = "raise"

\* C1: GET answers with status 200 and nothing else: the snapshot buildLiveData
\* assembled when the four adapters settled without raising, and the original,
\* unmodified baseline when one of them raised.
C1_GetAlwaysAnswers200 ==
    /\ response.status \in {0, 200}
    /\ Responded =>
          /\ response.status = 200
          /\ placeholderData = Placeholder
          /\ IF SomeAdapterRaised THEN response.body = Placeholder
             ELSE response.body = snapshot

\* A request whose cron adapter raised and which was answered all the same
C1_Witness ==
    /\ Responded
    /\ crons.t = "raise"
    /\ response = [status |-> 200, body |-> Placeholder]

\* Whether an adapter's outcome is a non-empty, successful result
AgentsNonEmpty == agents.t = "val" /\ agents.v # <<>>
ProjectsNonEmpty == projects.t = "val" /\ projects.active # <<>>
CronsNonEmpty == crons.t = "val" /\ crons.jobs # <<>>
TradingNonEmpty == trading.t = "val" /\ trading.qualifiedHorses # <<>>

\* C2: in the answered snapshot each of agents, projects, crons and trading is
\* the adapter's result exactly when that result is non-empty and successful,
\* and the baseline section otherwise; a trading result without qualified
\* horses leaves the baseline trading section in place.
C2_SectionReplacedIffNonEmpty ==
    (Responded /\ ~SomeAdapterRaised) =>
        /\ response.body["agents"] =
              IF AgentsNonEmpty THEN Live("agents", agents) ELSE Placeholder["agents"]
        /\ response.body["projects"] =
              IF ProjectsNonEmpty THEN Live("projects", projects)
              ELSE Placeholder["projects"]
        /\ response.body["crons"] =
              IF CronsNonEmpty THEN Live("crons", crons) ELSE Placeholder["crons"]
        /\ response.body["trading"] =
              IF TradingNonEmpty THEN Live("trading", trading)
              ELSE Placeholder["trading"]

\* C3: when every adapter returned null or an empty result, the report file
\* existing without qualifying entries included, the answered snapshot equals
\* the baseline in every section.
C3_AllEmptyGivesBaseline ==
    (/\ Responded
     /\ ~SomeAdapterRaised
     /\ ~AgentsNonEmpty /\ ~ProjectsNonEmpty /\ ~CronsNonEmpty /\ ~TradingNonEmpty)
        => response.body = Placeholder

AllFourNonEmpty ==
    AgentsNonEmpty /\ ProjectsNonEmpty /\ CronsNonEmpty /\ TradingNonEmpty

\* C4 as stated: when all four adapters returned non-empty results, none of the
\* seven sections of the answered snapshot is the baseline's copy.
C4_NoBaselineSectionLeft ==
    (Responded /\ AllFourNonEmpty) =>
        \A s \in Sections : response.body[s].origin # "placeholder"

\* C4 amended: when all four adapters returned non-empty results, the four
\* adapter-fed sections of the answered snapshot are the adapters' results, and
\* calendar, content and fileActivity, which no adapter feeds, are the
\* baseline's copies.
C4_LiveSectionsReplaced ==
    (Responded /\ AllFourNonEmpty) =>
        /\ response.body["agents"] = Live("agents", agents)
        /\ response.body["projects"] = Live("projects", projects)
        /\ response.body["crons"] = Live("crons", crons)
        /\ response.body["trading"] = Live("trading", trading)
        /\ \A s \in Sections \ LiveSections : response.body[s] = Placeholder[s]

\* A request answered after all four adapters returned non-empty results
C4_Witness ==
    /\ Responded
    /\ AllFourNonEmpty
    /\ response.body["crons"].origin = "live"
    /\ response.body["calendar"].origin = "placeholder"

\* C5: no adapter raises, whatever its source gave, so that in the answer of
\* the same request every section whose adapter returned a non-empty result is
\* that result.
C5_AdapterFailuresIsolated ==
    /\ ~SomeAdapterRaised
    /\ Responded =>
          /\ AgentsNonEmpty => response.body["agents"] = Live("agents", agents)
          /\ ProjectsNonEmpty => response.body["projects"] = Live("projects", projects)
          /\ CronsNonEmpty => response.body["crons"] = Live("crons", crons)
          /\ TradingNonEmpty => response.body["trading"] = Live("trading", trading)

-----------------------------------------------------------------------------
(* Properties of the agent reconciler *)

\* The agents list and the sessions list the reconciler worked on
ObservedAgents == agentsSrc.agentsJson.items

ObservedSessions ==
    IF agentsSrc.sessionsJson.t = "object" /\ agentsSrc.sessionsJson.field = "array"
    THEN agentsSrc.sessionsJson.items
    ELSE <<>>

\* The primary-prefix rule: the key starts with agent:<id>: for a primary agent
MatchesPrimary(session) ==
    \E k \in 1..Len(ObservedAgents) :
        StartsWith(session.key, kAgentColon \o ObservedAgents[k].id \o <<":">>)

\* The secondary-pattern rule: the key starts with agent:main:subagent:<id>
MatchesSecondary(session) ==
    /\ StartsWith(session.key, kSubagentPrefix)
    /\ Len(session.key) > Len(kSubagentPrefix)
    /\ IsHexDash(session.key[Len(kSubagentPrefix) + 1])

RECURSIVE SumRecordTokens(_)
SumRecordTokens(records) ==
    IF records = <<>> THEN 0
    ELSE Head(records).tokens + SumRecordTokens(Tail(records))

\* C6: the tokens of the reconciled records add up to the tokens of the
\* sessions matched by the primary-prefix rule or the secondary-pattern rule,
\* each such session counted once.
C6_TokenSumConserved ==
    agents.t = "val" =>
        SumRecordTokens(agents.v) =
            SumTokens(SelectSeq(ObservedSessions,
                LAMBDA s : MatchesPrimary(s) \/ MatchesSecondary(s)))

\* The known-identity list and the identifiers discovered in the sessions
KnownIdentities ==
    IF agentsSrc.dir.ok
    THEN {e.name : e \in {x \in agentsSrc.dir.entries : x.isDirectory}}
    ELSE {}

DiscoveredIds ==
    {SubagentMatch(ObservedSessions[i].key) : i \in 1..Len(ObservedSessions)} \ {<<>>}

\* The secondary records: what follows the primary agents' records
SecondaryRecords ==
    SubSeq(agents.v, Len(ObservedAgents) + 1, Len(agents.v))

\* C7: with N known identities and M discovered groups, M <= N gives exactly N
\* secondary records, M Active ones followed by N - M Idle ones of zero
\* sessions, tokens and cost; M > N gives exactly M secondary records, the
\* first N under identity labels and the others under the generic ordinal
\* labels of their positions.
C7_SecondaryRecordCount ==
    agents.t = "val" =>
        LET N == Cardinality(KnownIdentities)
            M == Cardinality(DiscoveredIds)
            sec == SecondaryRecords
            labels == {TitleCase(f) : f \in KnownIdentities}
        IN IF M <= N
           THEN /\ Len(sec) = N
                /\ \A k \in 1..M : sec[k].state = "Active"
                /\ \A k \in (M + 1)..N :
                      /\ sec[k].state = "Idle"
                      /\ sec[k].sessions = 0
                      /\ sec[k].tokens = 0
                      /\ sec[k].cost = 0
           ELSE /\ Len(sec) = M
                /\ \A k \in 1..N : sec[k].name \in labels
                /\ \A k \in (N + 1)..M :
                      sec[k].name = kSubAgentLabel \o NatToStr(k)

\* More groups discovered than identities known, one identity being known
C7_Witness ==
    /\ agents.t = "val"
    /\ Cardinality(KnownIdentities) = 1
    /\ Cardinality(DiscoveredIds) = 2
    /\ Len(SecondaryRecords) = 2

\* C8: every reconciled record, primary or secondary, is Active exactly when
\* its session count is above zero, and Idle otherwise.
C8_ActiveIffSessions ==
    agents.t = "val" =>
        \A k \in 1..Len(agents.v) :
            /\ agents.v[k].state \in {"Active", "Idle"}
            /\ (agents.v[k].state = "Active") <=> (agents.v[k].sessions > 0)

\* A reconciled set holding an Active and an Idle primary agent and an Active
\* and an Idle secondary one
C8_Witness ==
    /\ agents.t = "val"
    /\ Len(ObservedAgents) = 2
    /\ agents.v[1].state = "Active"
    /\ agents.v[2].state = "Idle"
    /\ Len(agents.v) = 4
    /\ agents.v[3].state = "Active"
    /\ agents.v[4].state = "Idle"

\* Whether the agents CLI gave no list at all, or an empty one
PrimaryListMissing ==
    \/ agentsSrc.agentsJson.t = "null"
    \/ agentsSrc.agentsJson.t = "object" /\ agentsSrc.agentsJson.field = "absent"

PrimaryListEmpty ==
    /\ \/ agentsSrc.agentsJson.t = "array"
       \/ agentsSrc.agentsJson.t = "object" /\ agentsSrc.agentsJson.field = "array"
    /\ agentsSrc.agentsJson.items = <<>>

PrimaryListUsable ==
    /\ ~PrimaryListMissing
    /\ ~PrimaryListEmpty
    /\ agentsSrc.agentsJson.field \in {"absent", "array"}
    /\ \A k \in 1..Len(ObservedAgents) : ~ObservedAgents[k].null

\* C9: a missing or empty primary agent list makes the reconciler return null,
\* whatever sessions and known identities exist, and the answered snapshot
\* keeps the baseline agents; a missing session list alone leaves the
\* reconciler returning the primary agents, all Idle with zero sessions and
\* tokens, and no discovered group.
C9_MissingListsHandled ==
    agents.t # "pending" =>
        /\ (PrimaryListMissing \/ PrimaryListEmpty) =>
              /\ agents.t = "null"
              /\ (Responded /\ ~SomeAdapterRaised) =>
                     response.body["agents"] = Placeholder["agents"]
        /\ (PrimaryListUsable /\ agentsSrc.sessionsJson.t = "null") =>
              /\ agents.t = "val"
              /\ Len(agents.v) = Len(ObservedAgents) + Cardinality(KnownIdentities)
              /\ \A k \in 1..Len(agents.v) :
                    /\ agents.v[k].state = "Idle"
                    /\ agents.v[k].sessions = 0
                    /\ agents.v[k].tokens = 0

\* A request answered with the baseline agents although a secondary-pattern
\* session and a known identity existed, the primary list being missing
C9_Witness ==
    /\ Responded
    /\ agentsSrc.agentsJson.t = "null"
    /\ DiscoveredIds # {}
    /\ KnownIdentities # {}
    /\ agents.t = "null"
    /\ response.body["agents"] = Placeholder["agents"]

\* C10: a section whose live source yields nothing is taken from the generated
\* snapshot file when that file is available with data, and from the
\* placeholder only when neither tier has data (stated for agents and crons,
\* the sections a generated snapshot carries).
C10_GeneratedTierBeforePlaceholder ==
    (Responded /\ ~SomeAdapterRaised) =>
        LET generatedHasData == generatedFile.present /\ ~generatedFile.isFallback
        IN /\ ~AgentsNonEmpty =>
                 response.body["agents"].origin =
                     IF generatedHasData THEN "generated" ELSE "placeholder"
           /\ ~CronsNonEmpty =>
                 response.body["crons"].origin =
                     IF generatedHasData THEN "generated" ELSE "placeholder"

-----------------------------------------------------------------------------
(* JSON extraction from CLI output: runOpenClawJson of route.ts and          *)
(* runCommand of scripts/generate-live-data.js.  The output is a sequence   *)
(* of characters; a parsed value is held as its text without whitespace.    *)

\* trimmed.search(/[\[{]/): position of the first [ or {, 0 when there is none
SearchBracket(s) ==
    LET hits == {i \in 1..Len(s) : s[i] \in {"[", "{"}}
    IN IF hits = {} THEN 0 ELSE CHOOSE k \in hits : \A j \in hits : k <= j

\* JSON whitespace is skipped from position i
RECURSIVE SkipWs(_, _)
SkipWs(s, i) ==
    IF i <= Len(s) /\ IsSpace(s[i]) THEN SkipWs(s, i + 1) ELSE i

\* The end of the number that starts at position i
RECURSIVE NumberEnd(_, _)
NumberEnd(s, i) ==
    IF i <= Len(s) /\ s[i] = "1" THEN NumberEnd(s, i + 1) ELSE i

\* JSON grammar over numbers, arrays and the empty object: the position after
\* the value that starts at i, 0 when no value starts there
RECURSIVE ValueEnd(_, _)
RECURSIVE ElementsEnd(_, _)
ValueEnd(s, i) ==
    LET j == SkipWs(s, i)
        k == SkipWs(s, j + 1)
    IN IF j > Len(s) THEN 0
       ELSE IF s[j] = "1" THEN NumberEnd(s, j)
       ELSE IF s[j] = "["
            THEN IF k <= Len(s) /\ s[k] = "]" THEN k + 1 ELSE ElementsEnd(s, k)
       ELSE IF s[j] = "{"
            THEN IF k <= Len(s) /\ s[k] = "}" THEN k + 1 ELSE 0
       ELSE 0

ElementsEnd(s, i) ==
    LET e == ValueEnd(s, i)
        k == SkipWs(s, e)
    IN IF e = 0 THEN 0
       ELSE IF k > Len(s) THEN 0
       ELSE IF s[k] = "," THEN ElementsEnd(s, k + 1)
       ELSE IF s[k] = "]" THEN k + 1
       ELSE 0

\* JSON.parse(text): the value, or a SyntaxError when text is not one JSON
\* value surrounded by whitespace
JSONParse(text) ==
    LET e == ValueEnd(text, 1)
    IN IF e # 0 /\ SkipWs(text, e) > Len(text)
       THEN [t |-> "val", val |-> SelectSeq(text, LAMBDA c : ~IsSpace(c))]
       ELSE [t |-> "raise", val |-> <<>>]

\* runOpenClawJson: null when the CLI fails, when its output holds no opening
\* bracket, or when the output from the first bracket to its end does not parse
runOpenClawJson(out) ==
    LET trimmed == Trim(out.stdout)
        start == SearchBracket(trimmed)
        payload == SliceFrom(trimmed, start)
        parsed == JSONParse(payload)
    IN IF ~out.ok THEN NullJson
       ELSE IF start = 0 THEN NullJson
       ELSE IF parsed.t = "val" THEN parsed
       ELSE NullJson

\* The number of characters of line that belong to chars
CountOf(line, chars) == Cardinality({i \in 1..Len(line) : line[i] \in chars})

\* One pass of runCommand's loop over a line
ScanLine(st, line) ==
    LET trimmed == Trim(line)
        inJson == st.inJson \/ (trimmed # <<>> /\ trimmed[1] \in {"[", "{"})
        jsonStr == st.jsonStr \o line \o <<"\n">>
        depth == st.depth + CountOf(line, {"[", "{"}) - CountOf(line, {"]", "}"})
    IN IF st.done \/ ~inJson THEN st
       ELSE [jsonStr |-> jsonStr, inJson |-> TRUE, depth |-> depth,
             done |-> depth = 0 /\ Trim(jsonStr) # <<>>]

RECURSIVE ScanLines(_, _)
ScanLines(st, lines) ==
    IF lines = <<>> THEN st
    ELSE ScanLines(ScanLine(st, Head(lines)), Tail(lines))

\* runCommand of the generator: the lines from the first one that begins with
\* a bracket up to the one on which the depth is back at zero are parsed
runCommand(out) ==
    LET lines == SplitOn(Trim(out.stdout), "\n")
        st == ScanLines([jsonStr |-> <<>>, inJson |-> FALSE, depth |-> 0,
                         done |-> FALSE], lines)
        parsed == JSONParse(st.jsonStr)
    IN IF ~out.ok THEN NullJson
       ELSE IF Trim(st.jsonStr) = <<>> THEN NullJson
       ELSE IF parsed.t = "val" THEN parsed
       ELSE NullJson

\* Diagnostic text before the JSON, the JSON texts, and text after it
DiagTexts == {<<>>, <<"x">>, <<"x", "\n">>, <<"x", " ">>}

JsonTexts ==
    {<<>>, <<"[", "]">>, <<"[", "1", "]">>, <<"{", "}">>,
     <<"[", "[", "1", "]", "]">>, <<"[", "1", ",", "1", "]">>,
     <<"[", "\n", "1", "\n", "]">>, <<"[", "{", "}", "]">>,
     <<"[", "1">>, <<"[", "x", "]">>}

TrailTexts == {<<>>, <<"\n">>, <<" ">>, <<"x">>, <<"\n", "x">>}

\* What one run of the CLI can print, or its failure
CliOutputs ==
    [ok : BOOLEAN, diag : DiagTexts, json : JsonTexts, trail : TrailTexts]

\* The CLI is run and both extractors are applied to what it printed
RunCli(outputs) ==
    /\ \E o \in outputs :
          LET out == [ok |-> o.ok, stdout |-> o.diag \o o.json \o o.trail]
          IN cli' = [ran |-> TRUE, ok |-> o.ok, diag |-> o.diag, json |-> o.json,
                     trail |-> o.trail, route |-> runOpenClawJson(out),
                     generator |-> runCommand(out)]
    /\ UNCHANGED <<pc, snapshot, response, placeholderData, generatedFile,
                   agentsSrc, agents, projectsSrc, projects, cronsSrc, crons,
                   tradingSrc, trading, completionOrder, other, parse, later>>

NextCli == RunCli(CliOutputs)

SpecCli == Init /\ [][NextCli]_vars

\* The position at which the bracket depth of s, followed from position i at
\* depth d, is back at zero; 0 when it never is
RECURSIVE DepthZeroAt(_, _, _)
DepthZeroAt(s, i, d) ==
    IF i > Len(s) THEN 0
    ELSE LET d2 == IF s[i] \in {"[", "{"} THEN d + 1
                   ELSE IF s[i] \in {"]", "}"} THEN d - 1
                   ELSE d
         IN IF d2 = 0 THEN i ELSE DepthZeroAt(s, i + 1, d2)

\* The extraction the specification describes: the parse of the substring from
\* the first opening bracket to where the depth returns to zero, else null
ExtractBalanced(stdout) ==
    LET start == SearchBracket(stdout)
        stop == DepthZeroAt(stdout, start, 0)
        parsed == JSONParse(SubSeq(stdout, start, stop))
    IN IF start = 0 \/ stop = 0 THEN NullJson
       ELSE IF parsed.t = "val" THEN parsed
       ELSE NullJson

\* The output has the shape the specification speaks of: diagnostic text, then nothing
\* or one text whose brackets balance, then more text
CliOutputShaped ==
    /\ cli.ran
    /\ cli.ok
    /\ cli.json = <<>> \/ DepthZeroAt(cli.json, 1, 0) = Len(cli.json)

\* C11: from output made of diagnostic text, one balanced JSON array or
\* object and possibly more text, both the request-time adapter and the
\* generator return the parse of exactly the substring from the first opening
\* bracket to where the bracket depth returns to zero, and null when there is
\* no opening bracket or that substring does not parse.
C11_ExtractsBalancedJson ==
    CliOutputShaped =>
        LET expected == ExtractBalanced(cli.diag \o cli.json \o cli.trail)
        IN /\ cli.route = expected
           /\ cli.generator = expected

-----------------------------------------------------------------------------
(* Cron normalisation, exercised over the states a job can carry *)

\* The state objects of a job: the status fields empty or set, each timestamp
\* field absent, a number within or beyond the range of Date, or a string
CronStates ==
    [lastStatus : {"", "error"},
     status : {"", "ok"},
     nextRunAtMs : {NoTimestamp, EpochMillis(19675, 80000000),
                    EpochMillis(115740740, 64000000), TimeString(" ")},
     next_run : {NoTimestamp, TimeString("tomorrow")},
     lastRunAtMs : {NoTimestamp, EpochMillis(0, 0)},
     last_run : {NoTimestamp, TimeString(" ")},
     lastRun : {NoTimestamp, TimeString("yesterday")}]

\* What fetchCronStatus can observe when the adapter is exercised alone
CronsSrcSet ==
    {NullPayload, ObjectPayload(<<>>), ObjectPayload(<<NullJob>>)}
    \cup {ObjectPayload(<<Job("backup", st)>>) : st \in CronStates}

NextCrons ==
    \/ GetStart /\ UNCHANGED aside
    \/ CronsSettle(CronsSrcSet) /\ UNCHANGED aside

SpecCrons == Init /\ [][NextCrons]_vars

\* The jobs the cron adapter worked on
ObservedJobs == extractJobs(cronsSrc)

\* The rendering the specification gives a timestamp value
RenderedTimestamp(value) ==
    IF value.t = "num"
    THEN [t |-> "iso", text |-> "", date |-> ToISOFields(value.days, value.ms)]
    ELSE IF value.t = "str" /\ value.text \notin {"", " ", "  "}
         THEN [t |-> "text", text |-> value.text, date |-> NoDate]
    ELSE [t |-> "text", text |-> "Unknown", date |-> NoDate]

\* The first of the given fields that is present
FirstPresent(fields) ==
    IF \A k \in 1..Len(fields) : fields[k].t = "absent" THEN NoTimestamp
    ELSE fields[CHOOSE k \in 1..Len(fields) :
                   /\ fields[k].t # "absent"
                   /\ \A j \in 1..(k - 1) : fields[j].t = "absent"]

\* What the specification says of one job and the record made of it
NormalisedAs(job, record) ==
    /\ record.status =
          IF job.state.lastStatus # "" THEN job.state.lastStatus
          ELSE IF job.state.status # "" THEN job.state.status
          ELSE "unknown"
    /\ record.nextRun =
          RenderedTimestamp(FirstPresent(<<job.state.nextRunAtMs, job.state.next_run>>))
    /\ record.lastRun =
          RenderedTimestamp(FirstPresent(<<job.state.lastRunAtMs, job.state.last_run,
                                           job.state.lastRun>>))

\* 2023-11-14T22:13:20.000Z
kExampleDate ==
    [year |-> 2023, month |-> 11, day |-> 14, hour |-> 22, minute |-> 13,
     second |-> 20, milli |-> 0]

\* C12: every job of a non-empty list is normalised: status is lastStatus if
\* non-empty, else status, else "unknown"; nextRun comes from nextRunAtMs if
\* present, else next_run; lastRun from lastRunAtMs, else last_run, else
\* lastRun; a number is rendered as its ISO string, a non-blank string as
\* itself, anything else as "Unknown"; 1700000000000 is rendered as
\* 2023-11-14T22:13:20.000Z.
C12_CronNormalised ==
    (/\ crons.t # "pending"
     /\ ObservedJobs # <<>>
     /\ \A k \in 1..Len(ObservedJobs) : ~ObservedJobs[k].null) =>
        /\ crons.t = "val"
        /\ Len(crons.jobs) = Len(ObservedJobs)
        /\ \A k \in 1..Len(ObservedJobs) :
              /\ NormalisedAs(ObservedJobs[k], crons.jobs[k])
              /\ ObservedJobs[k].state.nextRunAtMs = EpochMillis(19675, 80000000) =>
                    crons.jobs[k].nextRun.date = kExampleDate

-----------------------------------------------------------------------------
(* The record-window parser, exercised over report texts *)

MaxLines == 3
MaxCalls == 2

\* "13:00 A" and the like, the race field of an entry line
Chars1300A == <<"1", "3", ":", "0", "0", " ", "A">>
Chars1510B == <<"1", "5", ":", "1", "0", " ", "B">>
Chars1600C == <<"1", "6", ":", "0", "0", " ", "C">>
Chars1700D == <<"1", "7", ":", "0", "0", " ", "D">>
Chars1800E == <<"1", "8", ":", "0", "0", " ", "E">>

\* The lines of a report: headings of the target date and of another date;
\* entries dated inline or by their heading, one repeating another's name and
\* race with other spacing and another note, one of another date, one without
\* a time of day, one whose italic field is blank
ReportLines ==
    {Heading(todayDate),
     Heading(otherDate),
     Entry(todayDate \o <<" ">> \o Chars1300A, <<"x">>, "3.5", "n1"),
     Entry(todayDate \o <<" ">> \o Chars1510B, <<"z">>, "n/a", "n2"),
     Entry(Chars1600C, <<"q">>, "2", "n3"),
     Entry(todayDate \o <<" ", " ">> \o Chars1300A \o <<" ">>, <<" ", "x">>, "", "n4"),
     Entry(otherDate \o <<" ">> \o Chars1700D, <<"w">>, "4", "n5"),
     Entry(todayDate \o <<" ", "A">>, <<"y">>, "", "n6"),
     Entry(todayDate \o <<" ">> \o Chars1800E, <<" ">>, "", "n7")}

ReportTexts == SeqsUpTo(ReportLines, MaxLines)

\* The parser is given one text
InitParser ==
    /\ InitEndpoint
    /\ parse \in [calls : {0}, content : ReportTexts, horses : {<<>>},
                  previous : {<<>>}, seen : {{}}]

\* parseB2LHorses is called on the text, once more
ParseReport ==
    /\ parse.calls < MaxCalls
    /\ LET r == ParseCall(parse.content, parse.seen)
       IN parse' = [calls |-> parse.calls + 1, content |-> parse.content,
                    horses |-> r.horses, previous |-> parse.horses,
                    seen |-> r.seen]
    /\ UNCHANGED <<pc, snapshot, response, placeholderData, generatedFile,
                   agentsSrc, agents, projectsSrc, projects, cronsSrc, crons,
                   tradingSrc, trading, completionOrder, other, cli, later>>

\* The parser called directly, and then through fetchB2LData by a request
\* that reads a report file of the same text
NextParser ==
    \/ ParseReport
    \/ parse.calls = MaxCalls /\ GetStart /\ UNCHANGED aside
    \/ TradingSettle({ReportFile(parse.content)}) /\ UNCHANGED aside

SpecParser == InitParser /\ [][NextParser]_vars

-----------------------------------------------------------------------------
(* Properties of the record-window parser *)

\* The date of the most recent heading above line i, <<>> when there is none
HeadingAbove(lines, i) ==
    LET above == {j \in 1..(i - 1) : lines[j].t = "heading"}
    IN IF above = {} THEN <<>>
       ELSE lines[CHOOSE j \in above : \A k \in above : k <= j].date

\* Whether the bold field of an entry begins with a date of its own
InlineDated(line) ==
    /\ HasDateAtStart(line.race)
    /\ Len(line.race) > 11
    /\ line.race[11] = " "

\* The effective date of the entry on line i
EffectiveDate(lines, i) ==
    IF InlineDated(lines[i]) THEN SubSeq(lines[i].race, 1, 10)
    ELSE HeadingAbove(lines, i)

\* The race of the entry on line i, without its inline date
RaceOf(lines, i) ==
    IF InlineDated(lines[i])
    THEN Trim(SubSeq(lines[i].race, 11, Len(lines[i].race)))
    ELSE Trim(lines[i].race)

\* The composite key (name, race, date) of the entry on line i
KeyOf(lines, i) == <<Trim(lines[i].name), RaceOf(lines, i), EffectiveDate(lines, i)>>

\* The entries of the target date; an entry whose italic field is blank names
\* no record
Matching(lines) ==
    {i \in 1..Len(lines) :
        /\ lines[i].t = "entry"
        /\ Trim(lines[i].name) # <<>>
        /\ EffectiveDate(lines, i) = todayDate}

\* Of the entries of the target date, the first of each key
Survivors(lines) ==
    {i \in Matching(lines) :
        \A j \in Matching(lines) : j < i => KeyOf(lines, j) # KeyOf(lines, i)}

\* The record the entry on line i gives: the race is labelled with the date
RecordOf(lines, i) ==
    [name |-> Trim(lines[i].name),
     race |-> EffectiveDate(lines, i) \o <<" ">> \o RaceOf(lines, i),
     value |-> IF lines[i].price # "" THEN lines[i].price ELSE "n/a",
     note |-> lines[i].note,
     date |-> EffectiveDate(lines, i)]

Parsed == parse.calls > 0

\* C13: no two records the parser returns share the composite key (name,
\* race, date), and each record comes from the first entry line of its key.
C13_UniqueKeysFirstWins ==
    Parsed =>
        /\ \A i, j \in 1..Len(parse.horses) :
              i # j =>
                 <<parse.horses[i].name, parse.horses[i].race, parse.horses[i].date>>
                 # <<parse.horses[j].name, parse.horses[j].race, parse.horses[j].date>>
        /\ LET firsts == {RecordOf(parse.content, i) : i \in Survivors(parse.content)}
           IN \A k \in 1..Len(parse.horses) : parse.horses[k] \in firsts

\* A text whose second line repeats the key of its first with another note:
\* the one record returned carries the first line's note
C13_Witness ==
    /\ Parsed
    /\ Len(parse.content) = 2
    /\ parse.content[1].note = "n4"
    /\ parse.content[2].note = "n1"
    /\ Len(parse.horses) = 1
    /\ parse.horses[1].note = "n4"
    /\ parse.horses[1].name = <<"x">>

\* The records the parser returned, as a set
ReturnedRecords == {parse.horses[k] : k \in 1..Len(parse.horses)}

TokenOf(record) == TimeToken(record.race)

\* C15: the records the parser returns are in non-increasing string order of
\* their HH:MM time token, a record without one being ordered as "00:00"; the
\* sort comes before the truncation, so the records returned are those of the
\* greatest tokens among all surviving entries, wherever they stand in the
\* text.
C15_SortedByTimeDescending ==
    Parsed =>
        /\ \A k \in 1..(Len(parse.horses) - 1) :
              ~StrLess(TokenOf(parse.horses[k]), TokenOf(parse.horses[k + 1]))
        /\ \A k \in 1..Len(parse.horses) :
              (\A i \in 1..Len(parse.horses[k].race) : parse.horses[k].race[i] # ":")
                 => TokenOf(parse.horses[k]) = <<"0", "0", ":", "0", "0">>
        /\ LET surviving == {RecordOf(parse.content, i) : i \in Survivors(parse.content)}
           IN /\ Len(parse.horses) =
                    IF Cardinality(surviving) <= MaxHorses
                    THEN Cardinality(surviving)
                    ELSE MaxHorses
              /\ \A cut \in surviving \ ReturnedRecords :
                    \A k \in 1..Len(parse.horses) :
                        ~StrLess(TokenOf(parse.horses[k]), TokenOf(cut))

\* Three surviving entries, the one without a time of day standing second in
\* the text: the latest is returned first and the one without a time is cut
C15_Witness ==
    /\ Parsed
    /\ Len(parse.content) = 3
    /\ parse.content[1].note = "n1"
    /\ parse.content[2].note = "n6"
    /\ parse.content[3].note = "n2"
    /\ Cardinality(Survivors(parse.content)) = 3
    /\ Len(parse.horses) = 2
    /\ parse.horses[1].note = "n2"
    /\ parse.horses[2].note = "n1"

\* The four fields fetchB2LData copies of a parsed record
Qualified(record) ==
    [name |-> record.name, race |-> record.race, value |-> record.value,
     note |-> record.note]

\* C16: parsing the same text again gives the same records: a second call
\* returns what the first returned, and a request that reads a report file of
\* that text gets the same records through fetchB2LData; nothing of a call
\* outlives it.
C16_ParseIdempotent ==
    /\ parse.calls >= 2 => parse.horses = parse.previous
    /\ (Parsed /\ trading.t = "val") =>
          trading.qualifiedHorses =
              [k \in 1..Len(parse.horses) |-> Qualified(parse.horses[k])]

\* A text with records parsed twice, and once more within a request
C16_Witness ==
    /\ parse.calls = MaxCalls
    /\ Len(parse.horses) = 2
    /\ parse.previous = parse.horses
    /\ trading.t = "val"
    /\ Len(trading.qualifiedHorses) = 2

\* C17: the parser returns at most two records whatever the text holds, so
\* the trading section built from it never lists more than two qualified
\* horses, and its matchedRaces is the length of that list.
C17_AtMostMaxRecords ==
    /\ Parsed => Len(parse.horses) <= 2
    /\ trading.t = "val" =>
          /\ Len(trading.qualifiedHorses) <= 2
          /\ trading.matchedRaces = Len(trading.qualifiedHorses)

\* A text with three surviving entries: two records returned, two qualified
\* horses and two matched races in the trading section
C17_Witness ==
    /\ Parsed
    /\ Cardinality(Survivors(parse.content)) = 3
    /\ Len(parse.horses) = 2
    /\ trading.t = "val"
    /\ Len(trading.qualifiedHorses) = 2
    /\ trading.matchedRaces = 2

-----------------------------------------------------------------------------
(* The cost of a record, exercised over token counts *)

\* {id:"a1", identityName:"Clawd"}
agentClawd == Agent(<<"a", "1">>, <<"C", "l", "a", "w", "d">>)

\* Token counts on both sides of a rounding step, and the 1000 of the scenario
TokenCounts == {0, 1, 2, 19, 1000, 1901}

\* Sessions of the primary agent a1 and of one secondary group
CostSessions ==
    {Session(key, Num(n), NoTokens) :
        key \in {kAgentColon \o <<"a", "1", ":", "s", "1">>,
                 kSubagentPrefix \o <<"a", "b">>},
        n \in TokenCounts}

\* What fetchAgentData can observe when costs are exercised
CostSrcSet ==
    [agentsJson : {ObjectPayload(<<agentClawd>>)},
     sessionsJson : {ObjectPayload(l) : l \in SeqsUpTo(CostSessions, MaxSessions)},
     dir : {[ok |-> TRUE, entries |-> {[name |-> folderCoder, isDirectory |-> TRUE]}]}]

NextCost ==
    \/ GetStart /\ UNCHANGED aside
    \/ AgentsSettle(CostSrcSet) /\ UNCHANGED aside

SpecCost == Init /\ [][NextCost]_vars

\* Whether cost, in units of 0.0001, is tokens times 0.0000263 rounded to four
\* decimals: the product lies within half a unit of it
RoundedCost(tokens, cost) ==
    /\ cost * 1000 - 500 <= tokens * 263
    /\ tokens * 263 < cost * 1000 + 500

\* C18: the cost of every record, primary or secondary, is its token count
\* times 0.0000263 rounded to four decimals, so records of equal tokens have
\* equal cost; agent a1 "Clawd" with the one session agent:a1:s1 of 1000
\* tokens is reconciled as name "Clawd", Active, 1 session, 1000 tokens,
\* cost 0.0263.
C18_CostFromTokens ==
    agents.t = "val" =>
        /\ \A k \in 1..Len(agents.v) :
              RoundedCost(agents.v[k].tokens, agents.v[k].cost)
        /\ \A j, k \in 1..Len(agents.v) :
              agents.v[j].tokens = agents.v[k].tokens =>
                 agents.v[j].cost = agents.v[k].cost
        /\ (/\ agentsSrc.agentsJson = ObjectPayload(<<agentClawd>>)
            /\ agentsSrc.sessionsJson =
                  ObjectPayload(<<Session(kAgentColon \o <<"a", "1", ":", "s", "1">>,
                                          Num(1000), NoTokens)>>)) =>
              /\ agents.v[1].name = <<"C", "l", "a", "w", "d">>
              /\ agents.v[1].state = "Active"
              /\ agents.v[1].sessions = 1
              /\ agents.v[1].tokens = 1000
              /\ agents.v[1].cost = 263

\* The scenario's agent with 1000 tokens beside a secondary group of 19 tokens,
\* whose cost is rounded up
C18_Witness ==
    /\ agents.t = "val"
    /\ Len(agents.v) = 2
    /\ agents.v[1].tokens = 1000
    /\ agents.v[1].cost = 263
    /\ agents.v[2].state = "Active"
    /\ agents.v[2].tokens = 19
    /\ agents.v[2].cost = 5

-----------------------------------------------------------------------------
(* Two requests in flight: the completion order of the first one's adapters *)
(* is recorded, and a second GET runs beside it                             *)

\* What the adapters of either request can observe: for each a source that
\* gives nothing and one that gives a result; the report file also empty, the
\* cron list also with a null job
PairAgentsSrc ==
    [agentsJson : {NullPayload,
                   ObjectPayload(<<Agent(<<"a">>, <<"C", "l", "a", "w", "d">>)>>)},
     sessionsJson : {NullPayload},
     dir : {[ok |-> FALSE, entries |-> {}]}]

PairProjectsSrc ==
    {[kind |-> "notoken", nodes |-> <<>>],
     [kind |-> "ok", nodes |-> <<Node("In Progress", "ship")>>]}

PairCronsSrc ==
    {NullPayload, ObjectPayload(<<jobBackup>>), ObjectPayload(<<NullJob>>)}

PairTradingSrc ==
    {[exists |-> FALSE, readable |-> FALSE, lines |-> <<>>],
     ReportFile(<<>>),
     ReportFile(<<Heading(todayDate), Entry(Chars1300A, <<"x">>, "3.5", "n1")>>)}

\* What the second request leaves alone
frameOther ==
    <<pc, snapshot, response, generatedFile, agentsSrc, agents, projectsSrc,
      projects, cronsSrc, crons, tradingSrc, trading, completionOrder, cli, parse,
      later>>

\* A second GET is entered: its buildLiveData copies the placeholder and
\* starts its own four adapters
OtherStart ==
    /\ other.pc \in {"idle", "responded"}
    /\ other' = [pc |-> "fetching", snapshot |-> DeepCopy(placeholderData),
                 response |-> NoResponse, agents |-> PendingAgents,
                 projects |-> PendingProjects, crons |-> PendingCrons,
                 trading |-> PendingTrading]
    /\ UNCHANGED placeholderData
    /\ UNCHANGED frameOther

\* One of the second request's promises settles
OtherSettle ==
    /\ other.pc = "fetching"
    /\ \/ /\ other.agents.t = "pending"
          /\ \E src \in PairAgentsSrc :
                other' = [other EXCEPT !.agents = fetchAgentData(src)]
       \/ /\ other.projects.t = "pending"
          /\ \E src \in {[kind |-> "notoken", nodes |-> <<>>]} :
                other' = [other EXCEPT !.projects = fetchGitHubProjects(src)]
       \/ /\ other.crons.t = "pending"
          /\ \E src \in {ObjectPayload(<<jobBackup>>), ObjectPayload(<<NullJob>>)} :
                other' = [other EXCEPT !.crons = fetchCronStatus(src)]
       \/ /\ other.trading.t = "pending"
          /\ \E src \in {ReportFile(<<>>)} :
                other' = [other EXCEPT !.trading = fetchB2LData(src)]
    /\ UNCHANGED placeholderData
    /\ UNCHANGED frameOther

\* The second request's Promise.all is fulfilled and its GET answers
OtherReturn ==
    /\ other.pc = "fetching"
    /\ Settled(other.agents) /\ Settled(other.projects)
    /\ Settled(other.crons) /\ Settled(other.trading)
    /\ LET merged == Assemble(other.snapshot, other.agents, other.projects,
                              other.crons, other.trading)
       IN /\ other' = [other EXCEPT !.pc = "responded", !.snapshot = merged,
                                    !.response = [status |-> StatusOk, body |-> merged]]
          /\ placeholderData' =
                IF CopyAliases(placeholderData) THEN merged ELSE placeholderData
    /\ UNCHANGED frameOther

\* The second request's Promise.all is rejected and its catch block answers
OtherCatch ==
    /\ other.pc = "fetching"
    /\ \/ other.agents.t = "raise"
       \/ other.projects.t = "raise"
       \/ other.crons.t = "raise"
       \/ other.trading.t = "raise"
    /\ other' = [other EXCEPT !.pc = "responded",
                              !.response = CatchResponse(placeholderData)]
    /\ UNCHANGED placeholderData
    /\ UNCHANGED frameOther

\* The first request, the order in which its promises settle being recorded
NextRequests ==
    \/ GetStart /\ completionOrder' = <<>> /\ UNCHANGED <<other, cli, parse, later>>
    \/ /\ AgentsSettle(PairAgentsSrc)
       /\ completionOrder' = Append(completionOrder, "agents")
       /\ UNCHANGED <<other, cli, parse, later>>
    \/ /\ ProjectsSettle(PairProjectsSrc)
       /\ completionOrder' = Append(completionOrder, "projects")
       /\ UNCHANGED <<other, cli, parse, later>>
    \/ /\ CronsSettle(PairCronsSrc)
       /\ completionOrder' = Append(completionOrder, "crons")
       /\ UNCHANGED <<other, cli, parse, later>>
    \/ /\ TradingSettle(PairTradingSrc)
       /\ completionOrder' = Append(completionOrder, "trading")
       /\ UNCHANGED <<other, cli, parse, later>>
    \/ GetReturn /\ UNCHANGED aside
    \/ GetCatch /\ UNCHANGED aside
    \/ OtherStart
    \/ OtherSettle
    \/ OtherReturn
    \/ OtherCatch

SpecRequests == Init /\ [][NextRequests]_vars

-----------------------------------------------------------------------------
(* Properties of concurrent completion and of concurrent requests *)

\* The snapshot that four adapter outputs give by themselves: each section
\* decided by its own adapter's output, the others the baseline's
SnapshotOf(a, p, c, tr) ==
    [s \in Sections |->
        IF s = "agents" /\ a.t = "val" /\ a.v # <<>> THEN Live(s, a)
        ELSE IF s = "projects" /\ p.t = "val" /\ p.active # <<>> THEN Live(s, p)
        ELSE IF s = "crons" /\ c.t = "val" /\ c.jobs # <<>> THEN Live(s, c)
        ELSE IF s = "trading" /\ tr.t = "val" THEN Live(s, tr)
        ELSE Placeholder[s]]

\* C19: the snapshot answered is assembled once all four adapters have
\* completed, and it is the same for every order of their completions: each
\* section is decided by its own adapter's output alone.
C19_CompletionOrderIrrelevant ==
    (Responded /\ ~SomeAdapterRaised) =>
        /\ {completionOrder[k] : k \in 1..Len(completionOrder)} = LiveSections
        /\ Len(completionOrder) = 4
        /\ response.body = SnapshotOf(agents, projects, crons, trading)

\* A request answered with four live sections whose adapters completed in
\* the reverse of the order they were started in
C19_Witness ==
    /\ Responded
    /\ completionOrder = <<"trading", "crons", "projects", "agents">>
    /\ \A s \in LiveSections : response.body[s].origin = "live"
    /\ response.body = SnapshotOf(agents, projects, crons, trading)

\* Whether one of the second request's adapters raised
OtherAdapterRaised ==
    \/ other.agents.t = "raise"
    \/ other.projects.t = "raise"
    \/ other.crons.t = "raise"
    \/ other.trading.t = "raise"

\* C20: across sequences and interleavings of GET requests the baseline is
\* never modified, every request in flight works on its own copy of it, and
\* what a request answers is given by the adapter outputs that request
\* observed, whatever other requests did before it or beside it.
C20_NoCrossRequestState ==
    /\ placeholderData = Placeholder
    /\ pc = "fetching" => snapshot = Placeholder
    /\ other.pc = "fetching" => other.snapshot = Placeholder
    /\ Responded =>
          response.body =
              IF SomeAdapterRaised THEN Placeholder
              ELSE SnapshotOf(agents, projects, crons, trading)
    /\ other.pc = "responded" =>
          other.response.body =
              IF OtherAdapterRaised THEN Placeholder
              ELSE SnapshotOf(other.agents, other.projects, other.crons,
                              other.trading)

\* Two requests answered differently, each by its own adapters' outputs: the
\* first with live projects and the baseline agents, the second with live
\* agents and the baseline projects
C20_Witness ==
    /\ Responded
    /\ other.pc = "responded"
    /\ response.body["projects"].origin = "live"
    /\ response.body["agents"] = Placeholder["agents"]
    /\ other.response.body["agents"].origin = "live"
    /\ other.response.body["projects"] = Placeholder["projects"]
    /\ placeholderData = Placeholder

-----------------------------------------------------------------------------
(* The external waits of one request and their timeouts *)

\* The timeout the code puts on an external wait, in milliseconds: execFile's
\* timeout option on the CLI processes, AbortSignal.timeout on the HTTPS
\* query; 0 where the call is made without one (fs.access, fs.readFile,
\* fs.readdir)
TimeoutMs(w) ==
    CASE w \in {"agentsCli", "sessionsCli", "cronCli"} -> 12000
      [] w = "https" -> 10000
      [] OTHER -> 0

\* Whether the wait ends by itself when its source never answers
HasTimeout(w) == TimeoutMs(w) > 0

\* The wait each adapter starts with
FirstWait(a) ==
    CASE a = "agents" -> "agentsCli"
      [] a = "projects" -> "https"
      [] a = "crons" -> "cronCli"
      [] a = "trading" -> "reportAccess"

\* The wait an adapter goes on to when wait w has ended, "none" when it has
\* nothing more to wait for: fetchAgentData awaits the two CLI calls in turn
\* and lists the directory only when it has an agents payload; fetchB2LData
\* reads the file after the access check
NextWait(w, outcome) ==
    CASE w = "agentsCli" -> "sessionsCli"
      [] w = "sessionsCli" ->
            IF outcome["agentsCli"] = "answer" THEN "agentsDir" ELSE "none"
      [] w = "reportAccess" -> "reportRead"
      [] OTHER -> "none"

\* What fetchAgentData observed once its waits have ended: a CLI call that
\* timed out gave null
WaitsAgentsSrc(outcome) ==
    [agentsJson |-> IF outcome["agentsCli"] = "answer"
                    THEN ObjectPayload(<<Agent(<<"a">>, <<"C", "l", "a", "w", "d">>)>>)
                    ELSE NullPayload,
     sessionsJson |-> IF outcome["sessionsCli"] = "answer"
                      THEN ObjectPayload(<<>>) ELSE NullPayload,
     dir |-> [ok |-> outcome["agentsDir"] = "answer", entries |-> {}]]

\* What fetchGitHubProjects observed: an aborted query is a network error
WaitsProjectsSrc(outcome) ==
    IF outcome["https"] = "answer"
    THEN [kind |-> "ok", nodes |-> <<Node("In Progress", "ship")>>]
    ELSE [kind |-> "neterr", nodes |-> <<>>]

\* What fetchCronStatus observed
WaitsCronsSrc(outcome) ==
    IF outcome["cronCli"] = "answer"
    THEN {ObjectPayload(<<jobBackup>>), ObjectPayload(<<NullJob>>)}
    ELSE {NullPayload}

\* The wait w of adapter a has ended with outcome o
EndWait(a, w, o) ==
    LET outcome == [waits.outcome EXCEPT ![w] = o]
    IN [waits EXCEPT !.outcome = outcome, !.awaiting[a] = NextWait(w, outcome)]

\* The first GET is entered; which of the sources will never answer it is the
\* environment's choice
WaitsStart ==
    /\ pc = "idle"
    /\ GetStart
    /\ \E st \in SUBSET ExternalWaits :
          waits' = [stalled |-> st,
                    awaiting |-> [a \in Adapters |-> FirstWait(a)],
                    outcome |-> [w \in ExternalWaits |-> "none"]]
    /\ UNCHANGED <<completionOrder, other, cli, parse, auth, debug, gen, page>>

\* The source an adapter waits for answers
WaitAnswers(a) ==
    /\ pc = "fetching"
    /\ waits.awaiting[a] # "none"
    /\ waits.awaiting[a] \notin waits.stalled
    /\ waits' = EndWait(a, waits.awaiting[a], "answer")
    /\ UNCHANGED <<core, auth, debug, gen, page>>

\* The timeout of the wait an adapter is in expires, its source not having
\* answered
WaitTimesOut(a) ==
    /\ pc = "fetching"
    /\ waits.awaiting[a] # "none"
    /\ waits.awaiting[a] \in waits.stalled
    /\ HasTimeout(waits.awaiting[a])
    /\ waits' = EndWait(a, waits.awaiting[a], "timeout")
    /\ UNCHANGED <<core, auth, debug, gen, page>>

\* One request whose adapters settle when their waits have ended
NextWaits ==
    \/ WaitsStart
    \/ \E a \in Adapters : WaitAnswers(a)
    \/ \E a \in Adapters : WaitTimesOut(a)
    \/ /\ waits.awaiting["agents"] = "none"
       /\ AgentsSettle({WaitsAgentsSrc(waits.outcome)})
       /\ UNCHANGED aside
    \/ /\ waits.awaiting["projects"] = "none"
       /\ ProjectsSettle({WaitsProjectsSrc(waits.outcome)})
       /\ UNCHANGED aside
    \/ /\ waits.awaiting["crons"] = "none"
       /\ CronsSettle(WaitsCronsSrc(waits.outcome))
       /\ UNCHANGED aside
    \/ /\ waits.awaiting["trading"] = "none"
       /\ TradingSettle({ReportFile(<<>>)})
       /\ UNCHANGED aside
    \/ GetReturn /\ UNCHANGED aside
    \/ GetCatch /\ UNCHANGED aside

\* The event loop runs every callback that is ready and every timer that has
\* expired
SpecWaits == Init /\ [][NextWaits]_vars /\ WF_vars(NextWaits)

\* C21: every GET eventually answers, whichever of its sources never answer
C21_EveryGetResponds == (pc = "fetching") ~> (pc = "responded")

-----------------------------------------------------------------------------
(* The Basic-Auth middleware in front of the routes (middleware.ts, given in
   README.md) *)

\* The base64 alphabet
Base64Alphabet ==
    <<"A", "B", "C", "D", "E", "F", "G", "H", "I", "J", "K", "L", "M", "N",
    "O", "P", "Q", "R", "S", "T", "U", "V", "W", "X", "Y", "Z", "a", "b", "c",
    "d", "e", "f", "g", "h", "i", "j", "k", "l", "m", "n", "o", "p", "q", "r",
    "s", "t", "u", "v", "w", "x", "y", "z", "0", "1", "2", "3", "4", "5", "6",
    "7", "8", "9", "+", "/">>

\* base64 of a sequence of bytes: three bytes give four characters, a last
\* group of one or two bytes is padded with "="
RECURSIVE Base64(_)
Base64(bytes) ==
    LET ch(n) == Base64Alphabet[n + 1]
        b1 == bytes[1]
        b2 == bytes[2]
        b3 == bytes[3]
    IN IF bytes = <<>> THEN <<>>
       ELSE IF Len(bytes) = 1
            THEN <<ch(b1 \div 4), ch((b1 % 4) * 16), "=", "=">>
       ELSE IF Len(bytes) = 2
            THEN <<ch(b1 \div 4), ch((b1 % 4) * 16 + b2 \div 16),
                   ch((b2 % 16) * 4), "=">>
       ELSE <<ch(b1 \div 4), ch((b1 % 4) * 16 + b2 \div 16),
              ch((b2 % 16) * 4 + b3 \div 64), ch(b3 % 64)>>
            \o Base64(SubSeq(bytes, 4, Len(bytes)))

\* Buffer.from(s).toString('base64') for a string of ASCII characters
ToBase64(s) == Base64([k \in 1..Len(s) |-> CharCode(s[k])])

kBasicSpace ==
    <<"B", "a", "s", "i", "c", " ">>
kAdminColon ==
    <<"a", "d", "m", "i", "n", ":">>
kOpenclaw ==
    <<"o", "p", "e", "n", "c", "l", "a", "w">>

\* process.env.DASHBOARD_PASSWORD || 'openclaw': an unset and an empty
\* variable both give the default
Password(env) == IF env.set /\ env.v # <<>> THEN env.v ELSE kOpenclaw

\* The answer of the middleware to a request it refuses
Unauthorized(body) ==
    [t |-> "401", body |-> body,
     wwwAuthenticate |-> "Basic realm=\"OpenClaw Dashboard\""]

\* NextResponse.next()
PassedOn == [t |-> "next", body |-> "", wwwAuthenticate |-> ""]

\* A middleware that lets every header of the Basic scheme through
middlewareAnyBasic(header, env) ==
    IF ~header.present \/ header.v = <<>> \/ ~StartsWith(header.v, kBasicSpace)
    THEN Unauthorized("Authentication required")
    ELSE PassedOn

\* middleware(request) on the Authorization header of the request
middleware(header, env) ==
    LET expectedAuth == ToBase64(kAdminColon \o Password(env))
        providedAuth == SliceFrom(header.v, 7)
    IN IF ~header.present \/ header.v = <<>> \/ ~StartsWith(header.v, kBasicSpace)
       THEN Unauthorized("Authentication required")
       ELSE IF providedAuth # expectedAuth
            THEN Unauthorized("Invalid credentials")
       ELSE PassedOn

kNextStatic ==
    <<"_", "n", "e", "x", "t", "/", "s", "t", "a", "t", "i", "c">>
kNextImage ==
    <<"_", "n", "e", "x", "t", "/", "i", "m", "a", "g", "e">>
kFavicon ==
    <<"f", "a", "v", "i", "c", "o", "n">>
kIco ==
    <<"i", "c", "o">>
kPublic ==
    <<"p", "u", "b", "l", "i", "c">>

\* config.matcher '/((?!_next/static|_next/image|favicon.ico|public).*)': the
\* middleware runs on a path unless what follows its first slash begins with
\* one of the four alternatives ("." standing for any one character)
MatcherMatches(path) ==
    /\ path # <<>>
    /\ Head(path) = "/"
    /\ LET rest == Tail(path)
       IN /\ ~StartsWith(rest, kNextStatic)
          /\ ~StartsWith(rest, kNextImage)
          /\ ~(/\ Len(rest) >= 11
               /\ StartsWith(rest, kFavicon)
               /\ SubSeq(rest, 9, 11) = kIco)
          /\ ~StartsWith(rest, kPublic)

pathHome ==
    <<"/">>
pathData ==
    <<"/", "a", "p", "i", "/", "d", "a", "s", "h", "b", "o", "a", "r", "d",
    "-", "d", "a", "t", "a">>
pathDebug ==
    <<"/", "a", "p", "i", "/", "d", "e", "b", "u", "g", "/", "d", "a", "t",
    "a", "-", "s", "t", "a", "t", "u", "s">>
pathChunk ==
    <<"/", "_", "n", "e", "x", "t", "/", "s", "t", "a", "t", "i", "c", "/",
    "c", "h", "u", "n", "k", "s", "/", "m", "a", "i", "n", ".", "j", "s">>
pathImage ==
    <<"/", "_", "n", "e", "x", "t", "/", "i", "m", "a", "g", "e">>
pathFavicon ==
    <<"/", "f", "a", "v", "i", "c", "o", "n", ".", "i", "c", "o">>

\* The routes of the application
RoutePaths == {pathHome, pathData, pathDebug}

\* The static assets the framework serves
StaticPaths == {pathChunk, pathImage, pathFavicon}

credDefault ==
    <<"Y", "W", "R", "t", "a", "W", "4", "6", "b", "3", "B", "l", "b", "m",
    "N", "s", "Y", "X", "c", "=">>
credS3 ==
    <<"Y", "W", "R", "t", "a", "W", "4", "6", "c", "z", "M", "=">>
credWrong ==
    <<"Y", "W", "R", "t", "a", "W", "4", "6", "e", "A", "=", "=">>
credNoPassword ==
    <<"Y", "W", "R", "t", "a", "W", "4", "6">>

\* Authorization headers of requests: none, an empty one, the credentials of
\* admin with the default password, with the password s3, with a wrong and
\* with no password, and headers that differ from the right one in the case
\* of the scheme, in the space after it, in a trailing space, or in the scheme
AuthHeaders ==
    {[present |-> FALSE, v |-> <<>>], [present |-> TRUE, v |-> <<>>]}
    \cup {[present |-> TRUE, v |-> h] :
            h \in {kBasicSpace \o credDefault, kBasicSpace \o credS3,
                   kBasicSpace \o credWrong, kBasicSpace \o credNoPassword,
                   <<"b", "a", "s", "i", "c", " ">> \o credDefault,
                   <<"B", "a", "s", "i", "c">> \o credDefault,
                   kBasicSpace \o credDefault \o <<" ">>,
                   <<"B", "e", "a", "r", "e", "r", " ">> \o credDefault}}

\* DASHBOARD_PASSWORD: unset, empty, or s3
PasswordEnvs ==
    {[set |-> FALSE, v |-> <<>>], [set |-> TRUE, v |-> <<>>],
     [set |-> TRUE, v |-> <<"s", "3">>]}

\* One request arrives: the middleware runs when the matcher selects its path,
\* and the route handler (or the static file server) is reached unless the
\* middleware answered
HandleRequest(paths) ==
    /\ \E path \in paths, header \in AuthHeaders, env \in PasswordEnvs :
          LET matched == MatcherMatches(path)
              result == IF matched THEN middleware(header, env) ELSE PassedOn
          IN auth' = [handled |-> TRUE, path |-> path, header |-> header,
                      env |-> env, matched |-> matched, result |-> result,
                      reached |-> result.t = "next"]
    /\ UNCHANGED <<core, waits, debug, gen, page>>

NextAuth == HandleRequest(RoutePaths \cup StaticPaths)

SpecAuth == Init /\ [][NextAuth]_vars

\* The one header the middleware is to accept under each password setting
RightHeader(env) ==
    IF env = [set |-> TRUE, v |-> <<"s", "3">>]
    THEN kBasicSpace \o credS3
    ELSE kBasicSpace \o credDefault

\* C22: a request goes through the middleware to its handler only with the
\* Authorization header "Basic " + base64("admin:<password>"), the password
\* being DASHBOARD_PASSWORD or "openclaw"; every other request to a route,
\* the data and debug endpoints included, is answered 401 with a
\* WWW-Authenticate challenge and does not reach the handler
C22_OnlyAuthenticatedReachRoutes ==
    auth.handled =>
        /\ (auth.matched /\ auth.result.t = "next") =>
              (auth.header.present /\ auth.header.v = RightHeader(auth.env))
        /\ (auth.path \notin StaticPaths
            /\ ~(auth.header.present /\ auth.header.v = RightHeader(auth.env))) =>
              /\ auth.result.t = "401"
              /\ auth.result.wwwAuthenticate # ""
              /\ ~auth.reached
        /\ (auth.path \in RoutePaths
            /\ auth.header.present /\ auth.header.v = RightHeader(auth.env)) =>
              auth.reached

\* The data endpoint asked with the default credentials while another
\* password is set: refused with the challenge
C22_Witness ==
    /\ auth.handled
    /\ auth.path = pathData
    /\ auth.env = [set |-> TRUE, v |-> <<"s", "3">>]
    /\ auth.header = [present |-> TRUE, v |-> kBasicSpace \o credDefault]
    /\ auth.result = Unauthorized("Invalid credentials")
    /\ ~auth.reached

-----------------------------------------------------------------------------
(* The debug endpoint (app/api/debug/data-status/route.ts): the status of the
   candidate snapshot files *)

PRE_GENERATED_MAX_AGE_HOURS == 24

MsPerHour == 3600000

\* The number of candidate paths
CandidateCount == 3

\* A staleness test that allows two days
StaleAfterTwoDays(ageMs) == ageMs > 2 * PRE_GENERATED_MAX_AGE_HOURS * MsPerHour

\* ageHours > PRE_GENERATED_MAX_AGE_HOURS, the age being held in milliseconds
Stale(ageMs) == ageMs > PRE_GENERATED_MAX_AGE_HOURS * MsPerHour

\* ageHours.toFixed(2), in hundredths of an hour, for an age that is not
\* negative: the nearest multiple of the 36000 ms that make a hundredth
ToFixed2(ageMs) == (ageMs + MsPerHour \div 200) \div (MsPerHour \div 100)

\* The rejection reasons of a file that was read and parsed, in the order the
\* code pushes them
RejectionReasons(f) ==
    LET metaSource == f.metaKey
        hasMeta == f.metaKey # "none"
        isFallback == IF hasMeta THEN f.isFallback ELSE "absent"
        generatedAt == IF hasMeta THEN f.generatedAt
                       ELSE [k |-> "absent", ageMs |-> 0]
    IN (IF ~hasMeta THEN <<[t |-> "no metadata", source |-> "", hundredths |-> 0]>>
        ELSE <<>>)
       \o (IF isFallback = "absent"
           THEN <<[t |-> "no isFallback", source |-> metaSource, hundredths |-> 0]>>
           ELSE IF isFallback = "true"
                THEN <<[t |-> "isFallback true", source |-> metaSource,
                        hundredths |-> 0]>>
           ELSE <<>>)
       \o (IF generatedAt.k = "absent"
           THEN <<[t |-> "no generatedAt", source |-> metaSource, hundredths |-> 0]>>
           ELSE IF generatedAt.k = "invalid"
                THEN <<[t |-> "invalid generatedAt", source |-> metaSource,
                        hundredths |-> 0]>>
           ELSE IF Stale(generatedAt.ageMs)
                THEN <<[t |-> "stale", source |-> "",
                        hundredths |-> ToFixed2(generatedAt.ageMs)]>>
           ELSE <<>>)
       \o (IF ~f.agentsArray
           THEN <<[t |-> "agents", source |-> "", hundredths |-> 0]>> ELSE <<>>)
       \o (IF ~f.cronJobsArray
           THEN <<[t |-> "crons.jobs", source |-> "", hundredths |-> 0]>> ELSE <<>>)
       \o (IF f.projectsStatus = "blank"
           THEN <<[t |-> "projects.status", source |-> "", hundredths |-> 0]>>
           ELSE <<>>)

\* getFileStatus on one candidate file
getFileStatus(f) ==
    IF ~f.exists \/ ~f.parses
    THEN [exists |-> f.exists, valid |-> FALSE, timestamp |-> 0,
          isFallback |-> "absent", generatedAt |-> [k |-> "absent", ageMs |-> 0],
          rejectionReasons |-> <<[t |-> "unreadable", source |-> "",
                                  hundredths |-> 0]>>]
    ELSE LET reasons == RejectionReasons(f)
             hasMeta == f.metaKey # "none"
         IN [exists |-> TRUE, valid |-> Len(reasons) = 0, timestamp |-> f.mtime,
             isFallback |-> IF hasMeta THEN f.isFallback ELSE "absent",
             generatedAt |-> IF hasMeta /\ f.generatedAt.k # "absent"
                             THEN f.generatedAt
                             ELSE [k |-> "absent", ageMs |-> 0],
             rejectionReasons |-> reasons]

\* The entry the descending sort by modification time puts first among the
\* files that exist and are valid, 0 (null) when there is none; the sort is
\* stable, so of two files of one time the earlier candidate stays first
NewestFile(status) ==
    LET ok == {k \in 1..Len(status) : status[k].exists /\ status[k].valid}
    IN IF ok = {} THEN 0
       ELSE CHOOSE k \in ok :
               \A j \in ok : \/ status[j].timestamp < status[k].timestamp
                             \/ status[j].timestamp = status[k].timestamp /\ j >= k

\* A snapshot file as the live generator writes it, of the given age and
\* modification time
GoodFile(ageMs, mtime) ==
    [exists |-> TRUE, parses |-> TRUE, metaKey |-> "__meta", isFallback |-> "false",
     generatedAt |-> [k |-> "date", ageMs |-> ageMs], agentsArray |-> TRUE,
     cronJobsArray |-> TRUE, projectsStatus |-> "ok", mtime |-> mtime]

MissingFile == [GoodFile(0, 0) EXCEPT !.exists = FALSE, !.parses = FALSE]

\* Ages of a snapshot: fresh, exactly at the limit, one millisecond and six
\* minutes over it, thirty hours
SnapshotAges ==
    {0, PRE_GENERATED_MAX_AGE_HOURS * MsPerHour,
     PRE_GENERATED_MAX_AGE_HOURS * MsPerHour + 1,
     PRE_GENERATED_MAX_AGE_HOURS * MsPerHour + 360000, 30 * MsPerHour}

\* The states of a candidate file
CandidateFiles ==
    {MissingFile, [GoodFile(0, 1) EXCEPT !.parses = FALSE]}
    \cup {GoodFile(age, mtime) : age \in SnapshotAges, mtime \in {1, 2}}
    \cup {[GoodFile(0, 2) EXCEPT !.metaKey = "none"],
          [GoodFile(0, 2) EXCEPT !.metaKey = "metadata"],
          [GoodFile(0, 2) EXCEPT !.isFallback = "true"],
          [GoodFile(30 * MsPerHour, 2) EXCEPT !.isFallback = "absent"],
          [GoodFile(0, 2) EXCEPT !.generatedAt = [k |-> "absent", ageMs |-> 0]],
          [GoodFile(0, 2) EXCEPT !.generatedAt = [k |-> "invalid", ageMs |-> 0]],
          [GoodFile(0, 2) EXCEPT !.agentsArray = FALSE],
          [GoodFile(0, 2) EXCEPT !.cronJobsArray = FALSE],
          [GoodFile(0, 2) EXCEPT !.projectsStatus = "blank"],
          [GoodFile(0, 2) EXCEPT !.projectsStatus = "absent"]}

\* The debug endpoint is asked, once, over the candidate files
DebugGet ==
    /\ ~debug.asked
    /\ \E files \in [1..CandidateCount -> CandidateFiles] :
          LET status == [k \in 1..CandidateCount |-> getFileStatus(files[k])]
          IN debug' = [asked |-> TRUE, files |-> files, fileStatus |-> status,
                       newestFile |-> NewestFile(status)]
    /\ UNCHANGED <<core, waits, auth, gen, page>>

NextDebug == DebugGet

SpecDebug == Init /\ [][NextDebug]_vars

\* C23: a file whose generatedAt is more than 24 hours old is reported invalid
\* with a staleness reason that carries its age (30.00 for thirty hours); a
\* file is valid exactly when it has no rejection reason; newestFile is never
\* a missing or an invalid file
C23_DebugReport ==
    debug.asked =>
        /\ \A k \in 1..CandidateCount :
              LET f == debug.files[k]
                  s == debug.fileStatus[k]
                  stale == {i \in 1..Len(s.rejectionReasons) :
                               s.rejectionReasons[i].t = "stale"}
              IN /\ (/\ f.exists /\ f.parses /\ f.metaKey # "none"
                     /\ f.generatedAt.k = "date"
                     /\ f.generatedAt.ageMs > 24 * 60 * 60 * 1000) =>
                        /\ ~s.valid
                        /\ stale # {}
                        /\ \A i \in stale :
                              s.rejectionReasons[i].hundredths * 36000
                                 \in (f.generatedAt.ageMs - 18000)
                                     ..(f.generatedAt.ageMs + 18000)
                        /\ f.generatedAt.ageMs = 30 * 60 * 60 * 1000 =>
                              \A i \in stale :
                                 s.rejectionReasons[i].hundredths = 3000
                 /\ s.valid <=> (s.rejectionReasons = <<>>)
        /\ debug.newestFile # 0 =>
              /\ debug.files[debug.newestFile].exists
              /\ debug.files[debug.newestFile].parses
              /\ debug.fileStatus[debug.newestFile].valid
              /\ debug.fileStatus[debug.newestFile].rejectionReasons = <<>>

\* A report with a missing file, a thirty-hour-old file rejected as stale and
\* a fresh file that is the newest
C23_Witness ==
    /\ debug.asked
    /\ debug.files[1] = MissingFile
    /\ debug.files[2] = GoodFile(30 * MsPerHour, 2)
    /\ debug.fileStatus[2].rejectionReasons =
          <<[t |-> "stale", source |-> "", hundredths |-> 3000]>>
    /\ ~debug.fileStatus[2].valid
    /\ debug.files[3] = GoodFile(0, 1)
    /\ debug.newestFile = 3

-----------------------------------------------------------------------------
(* The snapshot generator (scripts/generate-live-data.js) *)

\* String.prototype.toLowerCase on the values given to REQUIRE_LIVE_DATA
ToLowerEnv(v) ==
    CASE v = "TRUE" -> "true"
      [] v = "True" -> "true"
      [] OTHER -> v

\* A generator that never insists on live data
requireLiveDataNever(env) == FALSE

\* String(process.env.REQUIRE_LIVE_DATA || '').toLowerCase() === 'true'
requireLiveData(env) == ToLowerEnv(env) = "true"

\* createMetadata; generatedAt is the time of the run
createMetadata(isFallback, source, details) ==
    [generatedBy |-> "scripts/generate-live-data.js", source |-> source,
     isFallback |-> isFallback, details |-> details]

\* withMetadata: the same metadata object under both keys
withMetadata(data, metadata) ==
    [agents |-> data.agents, crons |-> data.crons, metadata |-> metadata,
     meta |-> metadata]

\* The agents and crons sections of createEmptySnapshot
EmptySnapshot == [agents |-> <<>>, crons |-> [status |-> "unavailable", jobs |-> <<>>]]

kUndefined == <<"u", "n", "d", "e", "f", "i", "n", "e", "d">>

\* sessions?.sessions || []: "raise" stands for a sessions field that is a
\* non-empty string, which has no filter method
GenSessionsData(sessions) ==
    IF sessions.t = "object" /\ sessions.field = "array"
    THEN [t |-> "val", items |-> sessions.items]
    ELSE IF sessions.t = "object" /\ sessions.field = "str" /\ sessions.len > 0
         THEN [t |-> "raise", items |-> <<>>]
    ELSE [t |-> "val", items |-> <<>>]

\* The record processAgents builds for one agent; an agent without id gives
\* the prefix "agent:undefined:"
GenAgentRecord(agent, sessionsData) ==
    LET prefix == kAgentColon
                  \o (IF agent.id = <<>> THEN kUndefined ELSE agent.id) \o <<":">>
        agentSessions == SelectSeq(sessionsData, LAMBDA s : StartsWith(s.key, prefix))
        tokens == SumTokens(agentSessions)
    IN [name |-> IF agent.identityName # <<>> THEN agent.identityName
                 ELSE IF agent.id # <<>> THEN agent.id
                 ELSE kUnknown,
        state |-> IF Len(agentSessions) > 0 THEN "Active" ELSE "Idle",
        sessions |-> Len(agentSessions),
        tokens |-> tokens,
        cost |-> CostOf(tokens),
        model |-> IF agent.model # "" THEN agent.model ELSE DefaultModel,
        tasks |-> <<>>]

\* processAgents; a null agent or a null session makes the callback throw
processAgents(agentList, sessions) ==
    LET sessionsData == GenSessionsData(sessions)
    IN IF \/ sessionsData.t = "raise"
          \/ \E i \in 1..Len(agentList) : agentList[i].null
          \/ \E i \in 1..Len(sessionsData.items) : sessionsData.items[i].null
       THEN [t |-> "raise", v |-> <<>>]
       ELSE [t |-> "val",
             v |-> [k \in 1..Len(agentList) |->
                       GenAgentRecord(agentList[k], sessionsData.items)]]

\* processCrons; its callback and its formatTimestamp are those of the
\* request-time adapter, word for word
processCrons(jobs) ==
    LET mapped == [k \in 1..Len(jobs) |-> CronRecord(jobs[k])]
    IN IF \/ \E k \in 1..Len(jobs) : jobs[k].null
          \/ \E k \in 1..Len(jobs) :
                mapped[k].nextRun.t = "raise" \/ mapped[k].lastRun.t = "raise"
       THEN [t |-> "raise", status |-> "", jobs |-> <<>>]
       ELSE [t |-> "val", status |-> "available", jobs |-> mapped]

\* generateData on whether the binary exists and what the three commands
\* gave: the snapshot it returns, "failed" when it refuses to fall back,
\* "crashed" when a mapping throws
generateData(env, binary, agentsJson, sessions, cronResponse) ==
    LET agentsReady == agentsJson.t = "array" /\ Len(agentsJson.items) > 0
        cronsReady == cronResponse.t = "object" /\ cronResponse.field = "array"
        agentRecords == processAgents(agentsJson.items, sessions)
        cronSection == processCrons(cronResponse.items)
        isFallback == ~(agentsReady /\ cronsReady)
        data == [agents |-> IF agentsReady THEN agentRecords.v
                            ELSE EmptySnapshot.agents,
                 crons |-> IF cronsReady
                           THEN [status |-> cronSection.status,
                                 jobs |-> cronSection.jobs]
                           ELSE EmptySnapshot.crons]
    IN IF ~binary
       THEN IF requireLiveData(env)
            THEN [t |-> "failed", snapshot |-> withMetadata(EmptySnapshot,
                                                   createMetadata(TRUE, "", ""))]
            ELSE [t |-> "val",
                  snapshot |-> withMetadata(EmptySnapshot,
                      createMetadata(TRUE, "empty-fallback",
                          "openclaw binary unavailable; emitted empty snapshot"))]
       ELSE IF agentsReady /\ agentRecords.t = "raise"
            THEN [t |-> "crashed", snapshot |-> withMetadata(EmptySnapshot,
                                                    createMetadata(TRUE, "", ""))]
       ELSE IF cronsReady /\ cronSection.t = "raise"
            THEN [t |-> "crashed", snapshot |-> withMetadata(EmptySnapshot,
                                                    createMetadata(TRUE, "", ""))]
       ELSE IF isFallback /\ requireLiveData(env)
            THEN [t |-> "failed", snapshot |-> withMetadata(EmptySnapshot,
                                                   createMetadata(TRUE, "", ""))]
       ELSE [t |-> "val",
             snapshot |-> withMetadata(data,
                 createMetadata(isFallback,
                     IF isFallback THEN "mixed" ELSE "openclaw-cli",
                     IF isFallback
                     THEN "partial live data; unresolved sections are empty"
                     ELSE "live agents+sessions+cron captured from openclaw cli"))]

agentA == Agent(<<"a">>, <<"C", "l", "a", "w", "d">>)

\* What `agents list --json` gives the generator and the endpoint: nothing, a
\* bare array, an object with an agents array, elements without id or null
GenAgentsPayloads ==
    {NullPayload, ArrayPayload(<<>>), ArrayPayload(<<agentA>>),
     ObjectPayload(<<agentA>>), ArrayPayload(<<agentA, Agent(idMain, <<>>)>>),
     ArrayPayload(<<Agent(<<>>, <<>>)>>), ArrayPayload(<<NullAgent>>)}

GenSessionsPayloads ==
    {NullPayload, ArrayPayload(<<>>),
     ObjectPayload(<<Session(kAgentColon \o <<"a", ":", "s">>, Num(1), NoTokens)>>),
     ObjectPayload(<<Session(kAgentColon \o <<"a", ":", "s">>, Num(1), NoTokens),
                     Session(kAgentColon \o <<":", "s">>, NumericString(9), Num(3))>>),
     ObjectPayload(<<NullSession>>)}

GenCronPayloads ==
    {NullPayload, ArrayPayload(<<>>), ObjectPayload(<<>>),
     ObjectPayload(<<jobBackup>>), ObjectPayload(<<jobBackup, jobLegacy>>),
     ObjectPayload(<<NullJob>>), ObjectPayload(<<jobFarFuture>>)}

\* Values of REQUIRE_LIVE_DATA: unset, true in two spellings, and others
RequireEnvs == {"", "true", "TRUE", "1", "false"}

\* The script runs, once: it writes data/generated-data.json unless
\* generateData threw
GenRun ==
    /\ ~gen.ran
    /\ \E env \in RequireEnvs, binary \in BOOLEAN, a \in GenAgentsPayloads,
          s \in GenSessionsPayloads, c \in GenCronPayloads :
          LET r == generateData(env, binary, a, s, c)
          IN /\ gen' = [ran |-> TRUE, outcome |-> r.t, env |-> env,
                        binary |-> binary, agentsJson |-> a, sessionsJson |-> s,
                        cronJson |-> c, before |-> generatedFile,
                        written |-> r.snapshot]
             /\ generatedFile' =
                   IF r.t = "val"
                   THEN [present |-> TRUE,
                         isFallback |-> r.snapshot.meta.isFallback]
                   ELSE generatedFile
    /\ UNCHANGED <<pc, snapshot, response, placeholderData, agentsSrc, agents,
                   projectsSrc, projects, cronsSrc, crons, tradingSrc, trading,
                   completionOrder, other, cli, parse, waits, auth, debug, page>>

NextGen == GenRun

SpecGen == Init /\ [][NextGen]_vars

\* The payloads whose elements the mappings can process
GenWellFormed ==
    /\ \A i \in 1..Len(gen.agentsJson.items) : ~gen.agentsJson.items[i].null
    /\ \A i \in 1..Len(gen.sessionsJson.items) : ~gen.sessionsJson.items[i].null
    /\ \A i \in 1..Len(gen.cronJson.items) :
          /\ ~gen.cronJson.items[i].null
          /\ gen.cronJson.items[i] # jobFarFuture

GenRouteAgents ==
    fetchAgentData([agentsJson |-> gen.agentsJson, sessionsJson |-> gen.sessionsJson,
                    dir |-> [ok |-> FALSE, entries |-> {}]])

GenRouteCrons == fetchCronStatus(gen.cronJson)

\* C29: on the same three CLI payloads the generator writes a snapshot with
\* isFallback=false whose agents and crons sections are the primary agent
\* records and the cron records of the request-time adapters exactly when
\* buildLiveData would replace both sections
C29_GeneratorAgreesWithEndpoint ==
    (gen.ran /\ gen.binary) =>
        LET primaryCount == Len(extractAgents(gen.agentsJson).items)
            replacesBoth == AgentsApply(GenRouteAgents) /\ CronsApply(GenRouteCrons)
            liveSnapshot ==
                /\ gen.outcome = "val"
                /\ ~gen.written.meta.isFallback
                /\ gen.written.agents = SubSeq(GenRouteAgents.v, 1, primaryCount)
                /\ gen.written.crons.jobs = GenRouteCrons.jobs
        IN (gen.env = "" /\ GenWellFormed) => (liveSnapshot <=> replacesBoth)

-----------------------------------------------------------------------------
(* The polling page (app/page.tsx): fetchData and the 30-second interval.
   page.data is 0 for the placeholder and k for the body of the response to
   the k-th request; page.outcome records how each request stands *)

kUnableToRefresh == "Unable to refresh right now."

\* A page that reads the body whatever the status
ResponseOkAlways(r) == TRUE

\* response.ok
ResponseOk(r) == r.ok

\* How fetchData ends on a response: a status that is not ok makes it throw,
\* and so does a body that response.json() cannot parse
ResponseOutcome(r) ==
    IF ~ResponseOk(r) THEN "badstatus"
    ELSE IF ~r.json THEN "badjson"
    ELSE "ok"

\* The responses the page can get: ok or not, a JSON body or not
Responses == [ok : BOOLEAN, json : BOOLEAN]

\* fetchData up to its await: setLoading(true), setError(null), fetch issued
StartFetch(p) ==
    [p EXCEPT !.loading = TRUE, !.error = "", !.started = @ + 1,
              !.outcome[p.started + 1] = PendingFetch]

\* The catch and finally blocks of fetchData for request k
FailFetch(p, k, end) ==
    [p EXCEPT !.error = kUnableToRefresh, !.loading = FALSE, !.outcome[k] = end]

\* statusMessage
statusMessage(p) ==
    IF p.error # "" THEN p.error
    ELSE IF p.loading THEN "Refreshing data..."
    ELSE "Data current"

\* useEffect on mount: fetchData() and setInterval
PageMount ==
    /\ ~page.mounted
    /\ page' = [StartFetch(page) EXCEPT !.mounted = TRUE]
    /\ UNCHANGED <<core, waits, auth, debug, gen>>

\* The interval fires, whether or not earlier requests are still in flight
TimerFires ==
    /\ page.mounted
    /\ page.started < MaxRefreshes
    /\ page' = StartFetch(page)
    /\ UNCHANGED <<core, waits, auth, debug, gen>>

\* The fetch of request k is rejected: no response arrived
FetchRejects ==
    /\ \E k \in 1..MaxRefreshes :
          /\ page.outcome[k] = PendingFetch
          /\ page' = FailFetch(page, k, RejectedFetch)
    /\ UNCHANGED <<core, waits, auth, debug, gen>>

\* The response to request k arrives
ResponseArrives ==
    /\ \E k \in 1..MaxRefreshes, r \in Responses :
          /\ page.outcome[k] = PendingFetch
          /\ page' = IF ResponseOutcome(r) = "ok"
                     THEN [page EXCEPT !.data = k, !.lastUpdated = k,
                                       !.loading = FALSE,
                                       !.outcome[k] = Answered(r)]
                     ELSE FailFetch(page, k, Answered(r))
    /\ UNCHANGED <<core, waits, auth, debug, gen>>

NextPage ==
    \/ PageMount
    \/ TimerFires
    \/ FetchRejects
    \/ ResponseArrives

SpecPage == Init /\ [][NextPage]_vars

\* Request k ends in this step in one of the given ways
PageEnds(k, ends) ==
    page.outcome[k] = PendingFetch /\ page'.outcome[k] \in ends

\* The responses with an ok status and a JSON body, and the others
GoodResponses == {Answered(r) : r \in {x \in Responses : x.ok /\ x.json}}
BadResponses == {Answered(r) : r \in {x \in Responses : ~x.ok \/ ~x.json}}

\* C25 as stated: the page enters the error state only when a fetch fails at
\* the network level, never on a response that arrived
C25_ErrorOnlyOnNetworkFailure ==
    [][(page.error = "" /\ page'.error # "") =>
          \E k \in 1..MaxRefreshes : PageEnds(k, {RejectedFetch})]_vars

\* C25: the page enters the error state exactly when a refresh ends in a
\* network failure, in a response whose status is not ok, or in a response
\* whose body is not JSON; a response with an ok status and a JSON body does
\* not put it there, and the banner is then "Unable to refresh right now."
C25_ErrorOnFailedRefresh ==
    [][/\ (page.error = "" /\ page'.error # "") =>
             \E k \in 1..MaxRefreshes :
                PageEnds(k, {RejectedFetch} \cup BadResponses)
       /\ \A k \in 1..MaxRefreshes :
             /\ PageEnds(k, {RejectedFetch} \cup BadResponses) =>
                   /\ page'.error = kUnableToRefresh
                   /\ statusMessage(page') = kUnableToRefresh
                   /\ page'.data = page.data
             /\ PageEnds(k, GoodResponses) => page'.error = page.error]_vars

\* The only request got a response with a status that is not ok: the banner
\* is shown over the placeholder data
C25_Witness ==
    /\ page.started = 1
    /\ page.outcome[1] = Answered([ok |-> FALSE, json |-> TRUE])
    /\ statusMessage(page) = kUnableToRefresh
    /\ page.data = 0

\* C28: once every response has arrived the page shows the data of the most
\* recently started request that succeeded (a late response of an older
\* request does not overwrite it), or what it showed before when none did
C28_NewestSuccessfulShown ==
    LET done == {k \in 1..MaxRefreshes : page.outcome[k] \in GoodResponses}
    IN (page.mounted /\ \A k \in 1..MaxRefreshes : page.outcome[k] # PendingFetch) =>
          IF done = {} THEN page.data = 0
          ELSE page.data = CHOOSE k \in done : \A j \in done : j <= k

-----------------------------------------------------------------------------
(* Grouping and naming of the secondary identities *)

\* The identifier the secondary pattern extracts from the i-th session
SessionGroupId(i) == SubagentMatch(ObservedSessions[i].key)

\* The position of the first session of a discovered identifier
FirstAppearance(id) ==
    CHOOSE i \in 1..Len(ObservedSessions) :
        /\ SessionGroupId(i) = id
        /\ \A j \in 1..(i - 1) : SessionGroupId(j) # id

\* The k-th discovered identifier in order of first appearance
GroupAt(k) ==
    CHOOSE id \in DiscoveredIds :
        Cardinality({o \in DiscoveredIds :
                        FirstAppearance(o) < FirstAppearance(id)}) = k - 1

\* The k-th known identity in lexical order
KnownAt(k) ==
    CHOOSE n \in KnownIdentities :
        Cardinality({m \in KnownIdentities : StrLess(m, n)}) = k - 1

\* C26: the sessions of the secondary pattern are grouped by the extracted
\* identifier, the groups standing in order of first appearance with their
\* session counts and tokens summed; the k-th group carries the title-cased
\* name of the k-th known identity in lexical order, and beyond the length of
\* that list the generic label "Sub-agent k"
C26_GroupsNamedByPosition ==
    agents.t = "val" =>
        \A k \in 1..Cardinality(DiscoveredIds) :
            LET members == SelectSeq(ObservedSessions,
                               LAMBDA s : SubagentMatch(s.key) = GroupAt(k))
                rec == SecondaryRecords[k]
            IN /\ rec.sessions = Len(members)
               /\ rec.tokens = SumTokens(members)
               /\ rec.name = IF k <= Cardinality(KnownIdentities)
                             THEN TitleCase(KnownAt(k))
                             ELSE kSubAgentLabel \o NatToStr(k)

\* Two sessions of one identifier and one known identity beside a plain file:
\* a single group of two sessions and nine tokens, named Coder
C26_Witness ==
    /\ agents.t = "val"
    /\ Len(ObservedSessions) = 2
    /\ DiscoveredIds = {<<"a", "b">>}
    /\ KnownIdentities = {folderCoder}
    /\ Len(SecondaryRecords) = 1
    /\ SecondaryRecords[1].sessions = 2
    /\ SecondaryRecords[1].tokens = 9
    /\ SecondaryRecords[1].name = <<"C", "o", "d", "e", "r">>

-----------------------------------------------------------------------------
(* The inline date of an entry *)

\* The entry lines of the text a returned record can stem from: those of its
\* note
SourceLines(rec) ==
    {i \in 1..Len(parse.content) :
        parse.content[i].t = "entry" /\ parse.content[i].note = rec.note}

\* The bold field of an inline-dated entry without its date
AfterInlineDate(line) == Trim(SubSeq(line.race, 12, Len(line.race)))

-----------------------------------------------------------------------------
(* Deduplication of entries whose fields hold the separator of the key *)

\* Entries under the heading of the target date: one named "x|A" of race "A",
\* one named "x" of race "A|A", one named "x" of race "A", and that one again
\* with another note
KeyLines ==
    {Heading(todayDate),
     Entry(<<"A">>, <<"x", "|", "A">>, "2", "k1"),
     Entry(<<"A", "|", "A">>, <<"x">>, "3", "k2"),
     Entry(<<"A">>, <<"x">>, "4", "k3"),
     Entry(<<"A", " ">>, <<"x">>, "5", "k4")}

\* The parser is given one text of such lines
InitParserKeys ==
    /\ InitEndpoint
    /\ parse \in [calls : {0}, content : SeqsUpTo(KeyLines, MaxLines),
                  horses : {<<>>}, previous : {<<>>}, seen : {{}}]

SpecParserKeys == InitParserKeys /\ [][NextParser]_vars

\* C30: an entry is dropped as a duplicate only when an earlier entry has the
\* same trimmed name, the same trimmed race and the same effective date:
\* while no more first entries exist than records are returned, every first
\* entry of its triple has its record returned, and of entries of one triple
\* only the first has
C30_DropsOnlySameTriple ==
    Parsed =>
        LET firsts == Survivors(parse.content)
        IN /\ Cardinality(firsts) <= MaxHorses =>
                 \A i \in firsts : RecordOf(parse.content, i) \in ReturnedRecords
           /\ \A k \in 1..Len(parse.horses) :
                 parse.horses[k] \in {RecordOf(parse.content, i) : i \in firsts}

====
